---- MODULE Spec2Model ----
(***************************************************************************)
(* Model of the paged B+Tree of src/utils/bplustree.rs: the in-memory tree *)
(* (insert, split, query), its block-wise image on disk (serialize,        *)
(* deserialize) and the streaming reader BPlusTreeQuery.                   *)
(*                                                                         *)
(* Option<T> is modelled as a sequence of length at most one: None is <<>> *)
(* and Some(x) is <<x>>.  Vec indices are 0-based as in the source; the    *)
(* element at index i of a Vec s is s[i + 1].                              *)
(***************************************************************************)
EXTENDS Integers, Sequences, FiniteSets, TLC

VARIABLES cfg, tree, stored, dup, ninserts, file, ser, handle, res,
          xmltv, item, playlist, json

vars == <<cfg, tree, stored, dup, ninserts, file, ser, handle, res,
          xmltv, item, playlist, json>>

(***************************************************************************)
(* Bounds of the model.                                                    *)
(***************************************************************************)
MaxKey == 5
MaxVal == 2
MaxInserts == 5

Keys == 1..MaxKey
Values == 1..MaxVal

None == <<>>
Some(x) == <<x>>

\* the value of xmltv and of item while that part of the program is not running
Idle == [pc |-> "idle"]

(***************************************************************************)
(* Program constants.                                                      *)
(***************************************************************************)
BINCODE_OVERHEAD == 4
BLOCK_SIZE == 4096
POINTER_SIZE == 16
SIZE_OF_BOOL == 1

(***************************************************************************)
(* The type parameters K and V of a tree: size_of::<K>(), size_of::<V>(),  *)
(* the bincode size of one key (kEnc) and of one value (vEnc), and whether *)
(* V is a String, whose encoded size varies per value.  The fixed-size key *)
(* types are records ordered by an integer id; their sizes are chosen so   *)
(* that BPlusTree::new computes orders of 2 and 3.                         *)
(***************************************************************************)
FixedTypes ==
    { [kSize |-> 1400, kEnc |-> 1400, vSize |-> 4,   vEnc |-> 4,   vString |-> FALSE],
      [kSize |-> 1100, kEnc |-> 1100, vSize |-> 400, vEnc |-> 400, vString |-> FALSE] }

\* K = u32 or a 1400-byte record, V = String (size_of::<String>() is 24)
StringTypes ==
    { [kSize |-> 4,    kEnc |-> 4,    vSize |-> 24, vEnc |-> 0, vString |-> TRUE],
      [kSize |-> 1400, kEnc |-> 1400, vSize |-> 24, vEnc |-> 0, vString |-> TRUE] }

\* the byte length of the string that the value v stands for
StrLen(v) == IF v = 1 THEN 7 ELSE 4100

\* BPlusTreeNode::new
node_new(is_leaf) ==
    [is_leaf |-> is_leaf, keys |-> <<>>, children |-> <<>>, values |-> <<>>]

\* BPlusTreeNode::is_overflow
is_overflow(node, order) == Len(node.keys) > order

\* BPlusTreeNode::get_median_index
get_median_index(order) == order \div 2

\* Vec::insert(idx, x): x becomes the element at 0-based index idx.
VecInsert(s, idx, x) == SubSeq(s, 1, idx) \o <<x>> \o SubSeq(s, idx + 1, Len(s))

\* Vec::split_off(at): the retained prefix and the returned suffix.
SplitKeep(s, at) == SubSeq(s, 1, at)
SplitOff(s, at) == SubSeq(s, at + 1, Len(s))

\* BPlusTreeNode::find_leaf_entry
RECURSIVE find_leaf_entry(_)
find_leaf_entry(node) ==
    IF node.is_leaf THEN node.keys[1] ELSE find_leaf_entry(node.children[1])

\* the loop of BPlusTreeNode::get_equal_entry_index
RECURSIVE EqualLoop(_, _, _, _)
EqualLoop(keys, key, left, right) ==
    IF left > right THEN None
    ELSE LET mid == left + ((right - left) \div 2)
             mid_key == keys[mid + 1]
         IN  IF mid_key = key THEN Some(mid)
             ELSE IF mid_key > key
                  THEN IF mid = 0 THEN None
                       ELSE EqualLoop(keys, key, left, mid - 1)
                  ELSE EqualLoop(keys, key, mid + 1, right)

\* get_equal_entry_index with the search ending one entry early
get_equal_entry_index_short(node, key) ==
    IF Len(node.keys) <= 1 THEN None
    ELSE EqualLoop(node.keys, key, 0, Len(node.keys) - 2)

\* BPlusTreeNode::get_equal_entry_index
get_equal_entry_index(node, key) ==
    IF Len(node.keys) = 0 THEN None
    ELSE EqualLoop(node.keys, key, 0, Len(node.keys) - 1)

\* the loop of get_entry_index_upper_bound
RECURSIVE UpperLoop(_, _, _, _)
UpperLoop(keys, key, left, right) ==
    IF left < right
    THEN LET mid == left + ((right - left) \div 2)
         IN  IF keys[mid + 1] <= key
             THEN UpperLoop(keys, key, mid + 1, right)
             ELSE UpperLoop(keys, key, left, mid)
    ELSE left

\* the loop with < in place of <=: the first index whose key is >= key
RECURSIVE LowerLoop(_, _, _, _)
LowerLoop(keys, key, left, right) ==
    IF left < right
    THEN LET mid == left + ((right - left) \div 2)
         IN  IF keys[mid + 1] < key
             THEN LowerLoop(keys, key, mid + 1, right)
             ELSE LowerLoop(keys, key, left, mid)
    ELSE left

get_entry_index_lower_bound(keys, key) == LowerLoop(keys, key, 0, Len(keys))

\* get_entry_index_upper_bound (of BPlusTreeNode and of BPlusTreeQuery)
get_entry_index_upper_bound(keys, key) == UpperLoop(keys, key, 0, Len(keys))

\* slice::binary_search: Some(idx) for Ok(idx), None for Err(_)
RECURSIVE BinaryLoop(_, _, _, _)
BinaryLoop(keys, key, left, right) ==
    IF left >= right THEN None
    ELSE LET mid == left + ((right - left) \div 2)
         IN  IF keys[mid + 1] = key THEN Some(mid)
             ELSE IF keys[mid + 1] < key
                  THEN BinaryLoop(keys, key, mid + 1, right)
                  ELSE BinaryLoop(keys, key, left, mid)

binary_search(keys, key) == BinaryLoop(keys, key, 0, Len(keys))

\* Vec::get(idx)
VecGet(s, idx) == IF idx < Len(s) THEN Some(s[idx + 1]) ELSE None

\* BPlusTreeNode::query
RECURSIVE node_query(_, _)
node_query(node, key) ==
    IF node.is_leaf
    THEN LET r == binary_search(node.keys, key)
         IN  IF r = None THEN None ELSE VecGet(node.values, r[1])
    ELSE node_query(node.children[get_entry_index_upper_bound(node.keys, key) + 1], key)

\* split that does not push the first child of the sibling onto self
split_without_push(self, order) ==
    LET median == get_median_index(order)
    IN  IF self.is_leaf
        THEN [self |-> [self EXCEPT !.keys = SplitKeep(self.keys, median),
                                    !.values = SplitKeep(self.values, median)],
              node |-> [node_new(TRUE) EXCEPT
                                    !.keys = SplitOff(self.keys, median),
                                    !.values = SplitOff(self.values, median)]]
        ELSE [self |-> [self EXCEPT
                          !.keys = SplitKeep(self.keys, median + 1),
                          !.children = SplitKeep(self.children, median + 1)],
              node |-> [node_new(FALSE) EXCEPT
                          !.keys = SplitOff(self.keys, median + 1),
                          !.children = SplitOff(self.children, median + 1)]]

\* BPlusTreeNode::split: self after the call and the returned sibling
split(self, order) ==
    LET median == get_median_index(order)
    IN  IF self.is_leaf
        THEN [self |-> [self EXCEPT !.keys = SplitKeep(self.keys, median),
                                    !.values = SplitKeep(self.values, median)],
              node |-> [node_new(TRUE) EXCEPT
                                    !.keys = SplitOff(self.keys, median),
                                    !.values = SplitOff(self.values, median)]]
        ELSE LET nkeys == SplitOff(self.keys, median + 1)
                 nchildren == SplitOff(self.children, median + 1)
             IN  [self |-> [self EXCEPT
                              !.keys = SplitKeep(self.keys, median + 1),
                              !.children = Append(SplitKeep(self.children, median + 1),
                                                  nchildren[1])],
                  node |-> [node_new(FALSE) EXCEPT !.keys = nkeys,
                                                  !.children = nchildren]]

\* BPlusTreeNode::insert: self after the call and the returned Option<node>
RECURSIVE node_insert(_, _, _, _, _)
node_insert(self, key, v, inner_order, leaf_order) ==
    IF self.is_leaf
    THEN LET eq == get_equal_entry_index(self, key)
         IN  IF eq # None
             THEN [self |-> [self EXCEPT !.values = VecInsert(self.values, eq[1], v)],
                   ret |-> None]
             ELSE LET pos == get_entry_index_upper_bound(self.keys, key)
                      s1 == [self EXCEPT !.keys = VecInsert(self.keys, pos, key),
                                         !.values = VecInsert(self.values, pos, v)]
                  IN  IF is_overflow(s1, leaf_order)
                      THEN LET sp == split(s1, leaf_order)
                           IN  [self |-> sp.self, ret |-> Some(sp.node)]
                      ELSE [self |-> s1, ret |-> None]
    ELSE LET pos == get_entry_index_upper_bound(self.keys, key)
             r == node_insert(self.children[pos + 1], key, v, inner_order, leaf_order)
             s1 == [self EXCEPT !.children[pos + 1] = r.self]
         IN  IF r.ret # None
             THEN LET leaf_key == find_leaf_entry(r.ret[1])
                      idx == get_entry_index_upper_bound(s1.keys, leaf_key)
                      s2 == [s1 EXCEPT !.keys = VecInsert(s1.keys, idx, leaf_key),
                                       !.children = VecInsert(s1.children, idx + 1, r.ret[1])]
                  IN  IF is_overflow(s2, inner_order)
                      THEN LET sp == split(s2, inner_order)
                           IN  [self |-> sp.self, ret |-> Some(sp.node)]
                      ELSE [self |-> s2, ret |-> None]
             ELSE [self |-> s1, ret |-> None]

\* BPlusTree::new
BPlusTree_new(t) ==
    LET key_size == t.kSize + POINTER_SIZE + SIZE_OF_BOOL + BINCODE_OVERHEAD
    IN  [root |-> node_new(TRUE),
         inner_order |-> BLOCK_SIZE \div key_size,
         leaf_order |-> BLOCK_SIZE \div (key_size + t.vSize + BINCODE_OVERHEAD)]

\* BPlusTree::insert
BPlusTree_insert(t, key, value) ==
    IF Len(t.root.keys) = 0
    THEN [t EXCEPT !.root.keys = Append(t.root.keys, key),
                   !.root.values = Append(t.root.values, value)]
    ELSE LET r == node_insert(t.root, key, value, t.inner_order, t.leaf_order)
         IN  IF r.ret # None
             THEN LET node == r.ret[1]
                      child_key == IF node.is_leaf THEN node.keys[1]
                                   ELSE find_leaf_entry(node)
                  IN  [t EXCEPT !.root =
                          [node_new(FALSE) EXCEPT !.keys = <<child_key>>,
                                                 !.children = <<r.self, node>>]]
             ELSE [t EXCEPT !.root = r.self]

\* BPlusTree::query
BPlusTree_query(t, key) == node_query(t.root, key)

(***************************************************************************)
(* The file.  A file that exists has a length in bytes and the contents of *)
(* its complete 4096-byte blocks; the bytes of an incomplete last block    *)
(* cannot be read as a block and are not represented.  A block holds the   *)
(* fields of the node encoding: the flag byte, and for keys, values and    *)
(* pointers the u32 length prefix (klen, vlen, plen) and the bincode bytes *)
(* of a Vec, which are its u64 element count followed by the elements.     *)
(***************************************************************************)
Absent == [exists |-> FALSE, len |-> 0, blocks |-> <<>>]

\* the bincode encoding of a Vec: the count, then the elements
EncodeVec(elems) == [count |-> Len(elems), elems |-> elems]

\* bytes that are all zero
ZeroVec == [count |-> 0, elems |-> <<>>]

ZeroBlock == [flag |-> 0, klen |-> 0, kenc |-> ZeroVec, vlen |-> 0, venc |-> ZeroVec,
              plen |-> 0, penc |-> ZeroVec]

\* bincode size of one key, one value, one u64 offset
KeyBytes == "K"
ValueBytes == "V"
PointerBytes == "u64"
ElemBytes(type, t, e) ==
    IF type = KeyBytes THEN t.kEnc
    ELSE IF type = ValueBytes THEN (IF t.vString THEN 8 + StrLen(e) ELSE t.vEnc)
    ELSE 8

RECURSIVE SumBytes(_, _, _)
SumBytes(type, t, elems) ==
    IF elems = <<>> THEN 0
    ELSE ElemBytes(type, t, Head(elems)) + SumBytes(type, t, Tail(elems))

\* bincode::serialize(&vec).len()
EncodedLen(type, t, elems) == 8 + SumBytes(type, t, elems)

\* bincode::deserialize::<Vec<T>>(&buffer[..len]): the count is read from the
\* first 8 bytes, then count elements; running out of bytes is an error
DecodeVec(type, t, len, enc) ==
    IF len < 8 \/ Len(enc.elems) < enc.count THEN [status |-> "err", elems |-> <<>>]
    ELSE LET elems == SubSeq(enc.elems, 1, enc.count)
         IN  IF 8 + SumBytes(type, t, elems) > len
             THEN [status |-> "err", elems |-> <<>>]
             ELSE [status |-> "ok", elems |-> elems]

Max(a, b) == IF a > b THEN a ELSE b

\* the zero-filled blocks that a write beyond the end of the file leaves
ZeroBlocks(n) == [i \in 1..n |-> ZeroBlock]

\* file.seek(SeekFrom::Start(offset)) and file.write_all of one write of the
\* log: the whole block of a node, or the pointer vector of an internal node
ApplyWrite(f, w) ==
    LET idx == w.offset \div BLOCK_SIZE
    IN  IF w.kind = "block"
        THEN [f EXCEPT !.len = Max(f.len, w.offset + BLOCK_SIZE),
                       !.blocks = IF idx < Len(f.blocks)
                                  THEN [f.blocks EXCEPT ![idx + 1] = w.block]
                                  ELSE f.blocks \o ZeroBlocks(idx - Len(f.blocks))
                                                \o <<w.block>>]
        ELSE [f EXCEPT !.blocks[idx + 1].plen = w.len - 4,
                       !.blocks[idx + 1].penc = w.penc]

RECURSIVE ApplyWrites(_, _)
ApplyWrites(f, writes) ==
    IF writes = <<>> THEN f
    ELSE ApplyWrites(ApplyWrite(f, Head(writes)), Tail(writes))

(***************************************************************************)
(* BPlusTreeNode::serialize_to_blocks.  The result is the returned offset, *)
(* the log of the writes made to the file in the order they are made, and  *)
(* a status: "panic" when a copy into the 4096-byte buffer is out of range.*)
(* path is the position of self in the tree (child indices from the root). *)
(***************************************************************************)
\* the buffer that serialize_to_blocks writes to the file for self: the
\* flag, the keys and, for a leaf, the values
NodeBlock(t, self) ==
    [flag |-> IF self.is_leaf THEN 1 ELSE 0,
     klen |-> EncodedLen(KeyBytes, t, self.keys), kenc |-> EncodeVec(self.keys),
     vlen |-> IF self.is_leaf THEN EncodedLen(ValueBytes, t, self.values) ELSE 0,
     venc |-> IF self.is_leaf THEN EncodeVec(self.values) ELSE ZeroVec,
     plen |-> 0, penc |-> ZeroVec]

RECURSIVE serialize_to_blocks(_, _, _, _)
RECURSIVE SerializeChildren(_, _, _, _, _, _, _)

serialize_to_blocks(t, self, path, offset) ==
    LET keys_bytes == EncodedLen(KeyBytes, t, self.keys)
        pos_keys == 1 + 4 + keys_bytes
        values_bytes == EncodedLen(ValueBytes, t, self.values)
        write_pos == IF self.is_leaf THEN pos_keys + 4 + values_bytes ELSE pos_keys
        out_of_range == \/ pos_keys > BLOCK_SIZE
                        \/ self.is_leaf /\ pos_keys + 4 > BLOCK_SIZE
                        \/ self.is_leaf /\ write_pos > BLOCK_SIZE
        first == [kind |-> "block", path |-> path, offset |-> offset,
                  len |-> BLOCK_SIZE, block |-> NodeBlock(t, self), penc |-> ZeroVec]
    IN  IF out_of_range
        THEN [status |-> "panic", offset |-> offset, writes |-> <<>>]
        ELSE IF self.is_leaf
        THEN [status |-> "ok", offset |-> offset + BLOCK_SIZE, writes |-> <<first>>]
        ELSE LET pointer_offset == offset + write_pos
                 c == SerializeChildren(t, self.children, path, 1,
                                        offset + BLOCK_SIZE, <<>>, <<first>>)
                 pointer_bytes == EncodedLen(PointerBytes, t, c.pointer)
                 second == [kind |-> "ptr", path |-> path, offset |-> pointer_offset,
                            len |-> 4 + pointer_bytes, block |-> ZeroBlock,
                            penc |-> EncodeVec(c.pointer)]
             IN  IF c.status # "ok"
                 THEN [status |-> c.status, offset |-> c.offset, writes |-> c.writes]
                 ELSE [status |-> "ok", offset |-> c.offset,
                       writes |-> Append(c.writes, second)]

\* the loop pushing the offset after the child instead of the offset of it
SerializeChildren_after(t, children, path, i, current_offset, pointer, writes) ==
    IF i > Len(children)
    THEN [status |-> "ok", offset |-> current_offset, pointer |-> pointer,
          writes |-> writes]
    ELSE LET r == serialize_to_blocks(t, children[i], Append(path, i), current_offset)
         IN  IF r.status # "ok"
             THEN [status |-> r.status, offset |-> r.offset, pointer |-> pointer,
                   writes |-> writes \o r.writes]
             ELSE SerializeChildren(t, children, path, i + 1, r.offset,
                                    Append(pointer, r.offset),
                                    writes \o r.writes)

\* the loop over self.children of serialize_to_blocks
SerializeChildren(t, children, path, i, current_offset, pointer, writes) ==
    IF i > Len(children)
    THEN [status |-> "ok", offset |-> current_offset, pointer |-> pointer,
          writes |-> writes]
    ELSE LET r == serialize_to_blocks(t, children[i], Append(path, i), current_offset)
         IN  IF r.status # "ok"
             THEN [status |-> r.status, offset |-> r.offset, pointer |-> pointer,
                   writes |-> writes \o r.writes]
             ELSE SerializeChildren(t, children, path, i + 1, r.offset,
                                    Append(pointer, current_offset),
                                    writes \o r.writes)

\* OpenOptions::new().write(true).create(true).open(filename)
OpenForWrite(f) == IF f.exists THEN f ELSE [exists |-> TRUE, len |-> 0, blocks |-> <<>>]

\* BPlusTree::serialize: the result and the file after the call
BPlusTree_serialize(t, tr, f) ==
    LET r == serialize_to_blocks(t, tr.root, <<>>, 0)
    IN  [status |-> r.status, ret |-> r.offset, writes |-> r.writes,
         file |-> ApplyWrites(OpenForWrite(f), r.writes)]

(***************************************************************************)
(* BPlusTreeNode::deserialize_from_blocks.  status is "ok", "err" (an      *)
(* io::Error is returned) or "panic" (a slice of the buffer is out of      *)
(* range, or the recursion does not end because the pointers form a cycle).*)
(***************************************************************************)
\* the block at offset, read by file.read_exact(buffer); every offset that
\* occurs in a file of this model is a multiple of the block size
ReadBlock(f, offset) ==
    IF offset + BLOCK_SIZE > f.len
    THEN None
    ELSE Some(f.blocks[(offset \div BLOCK_SIZE) + 1])

\* the part of deserialize_from_blocks that decodes the buffer
ParseBlock(t, b) ==
    LET is_leaf == (b.flag = 1)
        bad(st) == [status |-> st, is_leaf |-> is_leaf, keys |-> <<>>,
                    values |-> <<>>, pointers |-> <<>>]
        keys == DecodeVec(KeyBytes, t, b.klen, b.kenc)
        pos_keys == 1 + 4 + b.klen
        values == DecodeVec(ValueBytes, t, b.vlen, b.venc)
        pointers == DecodeVec(PointerBytes, t, b.plen, b.penc)
    IN  IF pos_keys > BLOCK_SIZE THEN bad("panic")
        ELSE IF keys.status # "ok" THEN bad("err")
        ELSE IF pos_keys + 4 > BLOCK_SIZE THEN bad("panic")
        ELSE IF is_leaf
        THEN IF pos_keys + 4 + b.vlen > BLOCK_SIZE THEN bad("panic")
             ELSE IF values.status # "ok" THEN bad("err")
             ELSE [status |-> "ok", is_leaf |-> TRUE, keys |-> keys.elems,
                   values |-> values.elems, pointers |-> <<>>]
        ELSE IF pos_keys + 4 + b.plen > BLOCK_SIZE THEN bad("panic")
             ELSE IF pointers.status # "ok" THEN bad("err")
             ELSE [status |-> "ok", is_leaf |-> FALSE, keys |-> keys.elems,
                   values |-> <<>>, pointers |-> pointers.elems]

RECURSIVE deserialize_from_blocks(_, _, _, _, _)
RECURSIVE DeserializeChildren(_, _, _, _, _, _)

\* depth counts the nested calls: more of them than the file has blocks
\* means that the recursion never returns
deserialize_from_blocks(t, f, offset, nested, depth) ==
    LET blk == ReadBlock(f, offset)
        fail(st) == [status |-> st, node |-> node_new(TRUE), pointers |-> None]
    IN  IF depth > Len(f.blocks) THEN fail("panic")
        ELSE IF blk = None THEN fail("err")
        ELSE LET p == ParseBlock(t, blk[1])
                 node == [is_leaf |-> p.is_leaf, keys |-> p.keys,
                          children |-> <<>>, values |-> p.values]
             IN  IF p.status # "ok" THEN fail(p.status)
                 ELSE IF p.is_leaf
                 THEN [status |-> "ok", node |-> node, pointers |-> None]
                 ELSE IF ~nested
                 THEN [status |-> "ok", node |-> node, pointers |-> Some(p.pointers)]
                 ELSE LET c == DeserializeChildren(t, f, p.pointers, 1, <<>>, depth + 1)
                      IN  IF c.status # "ok" THEN fail(c.status)
                          ELSE [status |-> "ok",
                                node |-> [node EXCEPT !.children = c.nodes],
                                pointers |-> None]

\* pointers.iter().map(..).collect(): stops at the first error
DeserializeChildren(t, f, pointers, i, nodes, depth) ==
    IF i > Len(pointers) THEN [status |-> "ok", nodes |-> nodes]
    ELSE LET r == deserialize_from_blocks(t, f, pointers[i], TRUE, depth)
         IN  IF r.status # "ok" THEN [status |-> r.status, nodes |-> nodes]
             ELSE DeserializeChildren(t, f, pointers, i + 1, Append(nodes, r.node), depth)

\* BPlusTree::new_with_root
new_with_root(t, root) == [BPlusTree_new(t) EXCEPT !.root = root]

\* BPlusTree::deserialize
BPlusTree_deserialize(t, f) ==
    IF ~f.exists THEN [status |-> "err", tree |-> BPlusTree_new(t)]
    ELSE LET r == deserialize_from_blocks(t, f, 0, TRUE, 0)
         IN  [status |-> r.status, tree |-> new_with_root(t, r.node)]

\* BPlusTreeQuery::is_multiple_of_block_size
is_multiple_of_block_size(f) == f.len % BLOCK_SIZE = 0

\* BPlusTreeQuery::new: "ok" when a handle is returned
BPlusTreeQuery_new(f) ==
    IF ~f.exists THEN "err"
    ELSE IF ~is_multiple_of_block_size(f) THEN "err"
    ELSE "ok"

\* the loop of BPlusTreeQuery::query; status "hang" when it never ends
RECURSIVE QueryLoop(_, _, _, _, _)
QueryLoop(t, f, key, offset, steps) ==
    LET r == deserialize_from_blocks(t, f, offset, FALSE, 0)
    IN  IF steps > Len(f.blocks) THEN [status |-> "hang", value |-> None]
        ELSE IF r.status # "ok" THEN [status |-> r.status, value |-> None]
        ELSE IF r.node.is_leaf
        THEN LET i == binary_search(r.node.keys, key)
             IN  [status |-> "ok",
                  value |-> IF i = None THEN None ELSE VecGet(r.node.values, i[1])]
        ELSE LET child_idx == get_entry_index_upper_bound(r.node.keys, key)
                 p == VecGet(r.pointers[1], child_idx)
             IN  IF p = None THEN [status |-> "panic", value |-> None]
                 ELSE QueryLoop(t, f, key, p[1], steps + 1)

\* BPlusTreeQuery::query
BPlusTreeQuery_query(t, f, key) == QueryLoop(t, f, key, 0, 0)

(***************************************************************************)
(* State machine.  A tree is created by BPlusTree::new for one choice of K *)
(* and V and receives insert calls; it is then written to the file by      *)
(* serialize, and the file is read by deserialize and through a            *)
(* BPlusTreeQuery handle, in the order of tests::insert_test: the reads do *)
(* not depend on the tree in memory and the inserts do not depend on the   *)
(* file, so the reads are taken before the first insert or after           *)
(* serialize, and each read is taken from a state in which no read has     *)
(* been made yet (a read changes nothing that another read depends on).    *)
(* A panic ends the run.                                                   *)
(* stored, dup and ninserts record the insert calls made: the last value   *)
(* inserted with each key, whether some key was inserted more than once,   *)
(* and the number of calls.  ser is the result of serialize, handle the    *)
(* result of BPlusTreeQuery::new and res the result of the last read.      *)
(***************************************************************************)
NoSer == [status |-> "none", ret |-> 0, writes |-> <<>>, prior |-> Absent]
NoRes == [op |-> "none", status |-> "none", key |-> 0, value |-> None,
          tree |-> BPlusTree_new(cfg)]

Panicked == ser.status = "panic" \/ res.status \in {"panic", "hang"}

ReadsEnabled == ~Panicked /\ (ninserts = 0 \/ ser.status # "none")

InitTree(types) ==
    /\ cfg \in types
    /\ tree = BPlusTree_new(cfg)
    /\ stored = [k \in Keys |-> None]
    /\ dup = FALSE
    /\ ninserts = 0
    /\ ser = NoSer
    /\ handle = "none"
    /\ res = NoRes

Insert(key, value) ==
    /\ ninserts < MaxInserts
    /\ ser.status = "none"
    /\ handle = "none"
    /\ res.op = "none"
    /\ ~Panicked
    /\ tree' = BPlusTree_insert(tree, key, value)
    /\ stored' = [stored EXCEPT ![key] = Some(value)]
    /\ dup' = (dup \/ stored[key] # None)
    /\ ninserts' = ninserts + 1
    /\ UNCHANGED <<cfg, file, ser, handle, res, xmltv, item,
                   playlist, json>>

Serialize ==
    /\ ser.status = "none"
    /\ handle = "none"
    /\ res.op = "none"
    /\ ~Panicked
    /\ LET r == BPlusTree_serialize(cfg, tree, file)
       IN  /\ file' = r.file
           /\ ser' = [status |-> r.status, ret |-> r.ret, writes |-> r.writes,
                      prior |-> file]
    /\ UNCHANGED <<cfg, tree, stored, dup, ninserts, handle, res, xmltv, item,
                   playlist, json>>

Deserialize ==
    /\ ReadsEnabled
    /\ res.op = "none"
    /\ LET r == BPlusTree_deserialize(cfg, file)
       IN  res' = [NoRes EXCEPT !.op = "deserialize", !.status = r.status,
                                !.tree = r.tree]
    /\ UNCHANGED <<cfg, tree, stored, dup, ninserts, file, ser, handle, xmltv, item,
                   playlist, json>>

QueryNew ==
    /\ ReadsEnabled
    /\ handle = "none"
    /\ handle' = BPlusTreeQuery_new(file)
    /\ UNCHANGED <<cfg, tree, stored, dup, ninserts, file, ser, res, xmltv, item,
                   playlist, json>>

QueryQuery(key) ==
    /\ ReadsEnabled
    /\ handle = "ok"
    /\ res.op = "none"
    /\ LET r == BPlusTreeQuery_query(cfg, file, key)
       IN  res' = [NoRes EXCEPT !.op = "query", !.status = r.status,
                                !.key = key, !.value = r.value]
    /\ UNCHANGED <<cfg, tree, stored, dup, ninserts, file, ser, handle, xmltv, item,
                   playlist, json>>

\* the destination file does not exist
Init ==
    /\ InitTree(FixedTypes)
    /\ file = Absent
    /\ xmltv = Idle
    /\ item = Idle
    /\ playlist = Idle
    /\ json = Idle

Next ==
    \/ \E key \in Keys, value \in Values : Insert(key, value)
    \/ Serialize
    \/ Deserialize
    \/ QueryNew
    \/ \E key \in Keys : QueryQuery(key)

Spec == Init /\ [][Next]_vars

(***************************************************************************)
(* The same tree with V = String.                                          *)
(***************************************************************************)
InitString ==
    /\ InitTree(StringTypes)
    /\ file = Absent
    /\ xmltv = Idle
    /\ item = Idle
    /\ playlist = Idle
    /\ json = Idle

SpecString == InitString /\ [][Next]_vars

(***************************************************************************)
(* serialize into a destination that already exists: a zero-filled file    *)
(* that is empty, shorter than a block, or three blocks long with or       *)
(* without 100 more bytes.                                                 *)
(***************************************************************************)
ZeroFile(len) ==
    [exists |-> TRUE, len |-> len, blocks |-> ZeroBlocks(len \div BLOCK_SIZE)]

PriorFiles ==
    { Absent, ZeroFile(0), ZeroFile(100), ZeroFile(3 * BLOCK_SIZE),
      ZeroFile(3 * BLOCK_SIZE + 100) }

InitPrior ==
    /\ InitTree(FixedTypes)
    /\ file \in PriorFiles
    /\ xmltv = Idle
    /\ item = Idle
    /\ playlist = Idle
    /\ json = Idle

NextPrior ==
    \/ \E key \in Keys, value \in Values : Insert(key, value)
    \/ Serialize
    \/ QueryNew

SpecPrior == InitPrior /\ [][NextPrior]_vars

(***************************************************************************)
(* Reading files that serialize did not write: truncated files, files with *)
(* trailing bytes, and blocks whose length prefixes or pointers are wrong. *)
(***************************************************************************)
LeafOf(keys, values) == [node_new(TRUE) EXCEPT !.keys = keys, !.values = values]

GoodLeaf(t, k) == NodeBlock(t, LeafOf(<<k>>, <<1>>))

\* an internal block with the separator 2 and the given child offsets
InnerBlock(t, pointers) ==
    [NodeBlock(t, [node_new(FALSE) EXCEPT !.keys = <<2>>]) EXCEPT
        !.plen = EncodedLen(PointerBytes, t, pointers),
        !.penc = EncodeVec(pointers)]

FileOf(len, blocks) == [exists |-> TRUE, len |-> len, blocks |-> blocks]

OtherFiles(t) ==
    { Absent,
      FileOf(0, <<>>),
      FileOf(100, <<>>),
      FileOf(BLOCK_SIZE, <<GoodLeaf(t, 1)>>),
      FileOf(BLOCK_SIZE + 100, <<GoodLeaf(t, 1)>>),
      FileOf(BLOCK_SIZE, <<[GoodLeaf(t, 1) EXCEPT !.klen = 5000]>>),
      FileOf(BLOCK_SIZE, <<[GoodLeaf(t, 1) EXCEPT !.klen = BLOCK_SIZE - 5]>>),
      FileOf(BLOCK_SIZE, <<[GoodLeaf(t, 1) EXCEPT !.vlen = 5000]>>),
      FileOf(BLOCK_SIZE, <<[GoodLeaf(t, 1) EXCEPT !.klen = 4]>>),
      FileOf(3 * BLOCK_SIZE, <<InnerBlock(t, <<BLOCK_SIZE, 2 * BLOCK_SIZE>>),
                               GoodLeaf(t, 1), GoodLeaf(t, 2)>>),
      FileOf(2 * BLOCK_SIZE, <<InnerBlock(t, <<BLOCK_SIZE, 2 * BLOCK_SIZE>>),
                               GoodLeaf(t, 1)>>),
      FileOf(3 * BLOCK_SIZE,
             <<[InnerBlock(t, <<BLOCK_SIZE, 2 * BLOCK_SIZE>>) EXCEPT !.plen = 5000],
               GoodLeaf(t, 1), GoodLeaf(t, 2)>>),
      FileOf(2 * BLOCK_SIZE, <<InnerBlock(t, <<BLOCK_SIZE>>), GoodLeaf(t, 1)>>),
      FileOf(2 * BLOCK_SIZE, <<InnerBlock(t, <<BLOCK_SIZE, 0>>), GoodLeaf(t, 1)>>) }

InitOpen ==
    /\ InitTree(FixedTypes)
    /\ file \in OtherFiles(cfg)
    /\ xmltv = Idle
    /\ item = Idle
    /\ playlist = Idle
    /\ json = Idle

NextOpen ==
    \/ Deserialize
    \/ QueryNew
    \/ \E key \in Keys : QueryQuery(key)

SpecOpen == InitOpen /\ [][NextOpen]_vars

(***************************************************************************)
(* Strings.  A &str or String is a sequence of characters, each character  *)
(* a one-character TLA+ string; an XML entity reference counts as one      *)
(* character.  "" is <<>>.                                                *)
(***************************************************************************)
DigitValue ==
    [c \in {"0", "1", "2", "3", "4", "5", "6", "7", "8", "9"} |->
        CASE c = "0" -> 0 [] c = "1" -> 1 [] c = "2" -> 2 [] c = "3" -> 3
          [] c = "4" -> 4 [] c = "5" -> 5 [] c = "6" -> 6 [] c = "7" -> 7
          [] c = "8" -> 8 [] c = "9" -> 9]

\* char::is_ascii_digit
is_ascii_digit(c) == c \in DOMAIN DigitValue

DigitChar(d) == CHOOSE c \in DOMAIN DigitValue : DigitValue[c] = d

\* the number a sequence of digits denotes
RECURSIVE DigitsValue(_)
DigitsValue(s) ==
    IF s = <<>> THEN 0
    ELSE 10 * DigitsValue(SubSeq(s, 1, Len(s) - 1)) + DigitValue[s[Len(s)]]

\* the decimal digits of n >= 0, without padding
RECURSIVE to_string(_)
to_string(n) ==
    IF n < 10 THEN <<DigitChar(n)>>
    ELSE to_string(n \div 10) \o <<DigitChar(n % 10)>>

\* {:0width}: n >= 0 zero-padded to at least width digits
RECURSIVE ZeroPad(_, _)
ZeroPad(s, width) == IF Len(s) >= width THEN s ELSE ZeroPad(<<"0">> \o s, width)

\* str::split(c): the parts between the occurrences of c, empty parts included
RECURSIVE str_split(_, _)
str_split(s, c) ==
    IF \E i \in 1..Len(s) : s[i] = c
    THEN LET i == CHOOSE i \in 1..Len(s) :
                      s[i] = c /\ \A j \in 1..(i - 1) : s[j] # c
         IN  <<SubSeq(s, 1, i - 1)>> \o str_split(SubSeq(s, i + 1, Len(s)), c)
    ELSE <<s>>

(***************************************************************************)
(* chrono.  A NaiveDateTime is a record of its calendar fields; second 60  *)
(* is a leap second.                                                       *)
(***************************************************************************)
is_leap_year(year) == year % 4 = 0 /\ (year % 100 # 0 \/ year % 400 = 0)

days_in_month(year, month) ==
    CASE month \in {1, 3, 5, 7, 8, 10, 12} -> 31
      [] month \in {4, 6, 9, 11} -> 30
      [] OTHER -> IF is_leap_year(year) THEN 29 ELSE 28

\* chrono's format::scan::number: between min and max leading digits of s
scan_number(s, min, max) ==
    LET top == IF Len(s) < max THEN Len(s) ELSE max
        k == CHOOSE k \in 0..top :
                 /\ \A i \in 1..k : is_ascii_digit(s[i])
                 /\ k = top \/ ~is_ascii_digit(s[k + 1])
    IN  IF k < min THEN None
        ELSE Some([n |-> DigitsValue(SubSeq(s, 1, k)),
                   rest |-> SubSeq(s, k + 1, Len(s))])

\* the numeric items %Y %m %d %H %M %S in turn: each takes up to its width
\* of digits and at least one; a year with a sign takes every digit
RECURSIVE scan_items(_, _)
scan_items(s, widths) ==
    IF widths = <<>> THEN IF s = <<>> THEN Some(<<>>) ELSE None
    ELSE LET signed == widths[1] = 4 /\ s # <<>> /\ s[1] \in {"+", "-"}
             r == IF signed THEN scan_number(Tail(s), 1, Len(s))
                  ELSE scan_number(s, 1, widths[1])
         IN  IF r = None THEN None
             ELSE LET more == scan_items(r[1].rest, Tail(widths))
                      n == IF signed /\ s[1] = "-" THEN 0 - r[1].n ELSE r[1].n
                  IN  IF more = None THEN None
                      ELSE Some(<<n>> \o more[1])

\* NaiveDateTime::parse_from_str(s, "%Y%m%d%H%M%S")
parse_from_str(s) ==
    LET items == scan_items(s, <<4, 2, 2, 2, 2, 2>>)
    IN  IF items = None THEN None
        ELSE LET f == items[1]
             IN  IF /\ f[2] \in 1..12
                    /\ f[3] \in 1..days_in_month(f[1], f[2])
                    /\ f[4] \in 0..23
                    /\ f[5] \in 0..59
                    /\ f[6] \in 0..60
                 THEN Some([year |-> f[1], month |-> f[2], day |-> f[3],
                            hour |-> f[4], minute |-> f[5], second |-> f[6]])
                 ELSE None

\* NaiveDate::succ and NaiveDate::pred
succ_day(d) ==
    IF d.day < days_in_month(d.year, d.month) THEN [d EXCEPT !.day = d.day + 1]
    ELSE IF d.month < 12 THEN [d EXCEPT !.month = d.month + 1, !.day = 1]
    ELSE [d EXCEPT !.year = d.year + 1, !.month = 1, !.day = 1]

pred_day(d) ==
    IF d.day > 1 THEN [d EXCEPT !.day = d.day - 1]
    ELSE IF d.month > 1
         THEN [d EXCEPT !.month = d.month - 1,
                        !.day = days_in_month(d.year, d.month - 1)]
    ELSE [d EXCEPT !.year = d.year - 1, !.month = 12, !.day = 31]

RECURSIVE add_days(_, _)
add_days(d, days) ==
    IF days = 0 THEN d
    ELSE IF days > 0 THEN add_days(succ_day(d), days - 1)
    ELSE add_days(pred_day(d), days + 1)

\* NaiveDateTime + TimeDelta for a delta of whole minutes: the time of day
\* is added first and carries whole days into the date.  A leap second
\* stays one only under a zero delta; it counts as second 59 when time is
\* added and as the following second when time is subtracted.
add_minutes(dt, minutes) ==
    LET leap == dt.second = 60
        second == IF leap /\ minutes > 0 THEN 59 ELSE dt.second
        secs == dt.hour * 3600 + dt.minute * 60 + second + minutes * 60
        day_secs == secs % 86400
        date == add_days(dt, secs \div 86400)
    IN  IF leap /\ minutes = 0 THEN dt
        ELSE [date EXCEPT !.hour = day_secs \div 3600,
                          !.minute = (day_secs % 3600) \div 60,
                          !.second = day_secs % 60]

\* NaiveDateTime::format("%Y%m%d%H%M%S"); a year outside 0..9999 gets a sign
format(dt) ==
    LET year == IF dt.year < 0
                THEN <<"-">> \o ZeroPad(to_string(0 - dt.year), 4)
                ELSE IF dt.year > 9999 THEN <<"+">> \o to_string(dt.year)
                ELSE ZeroPad(to_string(dt.year), 4)
    IN  year \o ZeroPad(to_string(dt.month), 2) \o ZeroPad(to_string(dt.day), 2)
             \o ZeroPad(to_string(dt.hour), 2) \o ZeroPad(to_string(dt.minute), 2)
             \o ZeroPad(to_string(dt.second), 2)

\* time_correct; correction is the TimeDelta in minutes
time_correct(date_time, correction) ==
    LET date_time_split == str_split(date_time, " ")
    IN  IF Len(date_time_split) # 2 THEN date_time
        ELSE LET native_dt == parse_from_str(date_time_split[1])
             IN  IF native_dt = None THEN date_time
                 ELSE format(add_minutes(native_dt[1], correction))
                          \o <<" ">> \o date_time_split[2]

(***************************************************************************)
(* time_correct on its own: the timestamps are a local time followed by    *)
(* nothing, by one timezone token or by two; the local times are well      *)
(* formed or are short by one or two digits, out of range or not numeric.  *)
(***************************************************************************)
Local(year, month, day, hour, minute, second) ==
    ZeroPad(to_string(year), 4) \o ZeroPad(to_string(month), 2)
        \o ZeroPad(to_string(day), 2) \o ZeroPad(to_string(hour), 2)
        \o ZeroPad(to_string(minute), 2) \o ZeroPad(to_string(second), 2)

LocalTimes ==
    { Local(2024, 1, 15, 10, 30, 0), Local(2024, 2, 29, 23, 30, 0),
      Local(2023, 12, 31, 23, 59, 59), Local(2024, 3, 1, 0, 10, 0),
      Local(2023, 2, 28, 22, 45, 10), Local(2100, 3, 1, 1, 0, 7) }

MalformedLocals ==
    { SubSeq(Local(2024, 1, 15, 10, 30, 0), 1, 13),
      SubSeq(Local(2024, 1, 15, 10, 30, 0), 1, 12),
      Local(2024, 13, 1, 10, 30, 0), Local(2023, 2, 29, 10, 30, 0),
      Local(2024, 1, 15, 24, 0, 0),
      SubSeq(Local(2024, 1, 15, 10, 30, 0), 1, 13) \o <<"x">>,
      <<>> }

Zones == { <<"+", "0", "0", "0", "0">>, <<"-", "0", "5", "3", "0">>, <<>> }

DateTimes ==
    LET locals == LocalTimes \cup MalformedLocals
    IN  locals
        \cup { l \o <<" ">> \o z : l \in locals, z \in Zones }
        \cup { l \o <<" ">> \o z \o <<" ">> \o z : l \in locals, z \in Zones }

Corrections == { -150, -30, 30, 90, 120, 1470 }

\* no tree is in use
InitNoTree ==
    /\ InitTree({[kSize |-> 1400, kEnc |-> 1400, vSize |-> 4, vEnc |-> 4,
                  vString |-> FALSE]})
    /\ file = Absent

InitTimeCorrect ==
    /\ InitNoTree
    /\ item = Idle
    /\ playlist = Idle
    /\ json = Idle
    /\ \E date_time \in DateTimes, correction \in Corrections :
           xmltv = [pc |-> "time_correct", date_time |-> date_time,
                    correction |-> correction]

TimeCorrect ==
    /\ xmltv.pc = "time_correct"
    /\ xmltv' = [pc |-> "time_corrected", date_time |-> xmltv.date_time,
                 correction |-> xmltv.correction,
                 result |-> time_correct(xmltv.date_time, xmltv.correction)]
    /\ UNCHANGED <<cfg, tree, stored, dup, ninserts, file, ser, handle, res, item,
                   playlist, json>>

NextTimeCorrect == TimeCorrect

SpecTimeCorrect == InitTimeCorrect /\ [][NextTimeCorrect]_vars

(***************************************************************************)
(* parse_timeshift.  Arithmetic is that of i32: under overflow checks (a   *)
(* debug build) an overflow panics, without them it wraps.                 *)
(***************************************************************************)
I32_MAX == 2147483647
I32_MIN == 0 - I32_MAX - 1

\* the decimal digits of i32::MAX + 1 and of u32::MAX
I32_LIMIT == <<"2", "1", "4", "7", "4", "8", "3", "6", "4", "8">>
U32_MAX == <<"4", "2", "9", "4", "9", "6", "7", "2", "9", "5">>

RECURSIVE trim_zeros(_)
trim_zeros(digits) ==
    IF Len(digits) > 1 /\ digits[1] = "0" THEN trim_zeros(Tail(digits)) ELSE digits

\* the number digits denotes is greater than the number limit denotes
ExceedsDigits(digits, limit) ==
    LET d == trim_zeros(digits)
    IN  \/ Len(d) > Len(limit)
        \/ /\ Len(d) = Len(limit)
           /\ \E i \in 1..Len(d) :
                  /\ DigitValue[d[i]] > DigitValue[limit[i]]
                  /\ \A j \in 1..(i - 1) : d[j] = limit[j]

\* str::parse::<i32>(): an optional sign and at least one digit, in range
parse_i32(s) ==
    LET negative == s # <<>> /\ s[1] = "-"
        digits == IF s # <<>> /\ s[1] \in {"+", "-"} THEN Tail(s) ELSE s
    IN  IF digits = <<>> \/ \E i \in 1..Len(digits) : ~is_ascii_digit(digits[i])
        THEN None
        ELSE IF negative
        THEN IF ExceedsDigits(digits, I32_LIMIT) THEN None
             ELSE IF trim_zeros(digits) = I32_LIMIT THEN Some(I32_MIN)
             ELSE Some(0 - DigitsValue(digits))
        ELSE IF ExceedsDigits(digits, I32_LIMIT) \/ trim_zeros(digits) = I32_LIMIT
        THEN None
        ELSE Some(DigitsValue(digits))

\* str::parse::<u32>(): an optional "+" and at least one digit, in range
parse_u32(s) ==
    LET digits == IF s # <<>> /\ s[1] = "+" THEN Tail(s) ELSE s
    IN  IF digits = <<>> \/ \E i \in 1..Len(digits) : ~is_ascii_digit(digits[i])
        THEN None
        ELSE IF ExceedsDigits(digits, U32_MAX) THEN None
        ELSE Some(DigitsValue(digits))

\* n * m in i32 for 0 <= m < 2^15: whether it overflows, and the wrapped
\* product, put together from the 16-bit halves of n
mul_overflows(n, m) == n > I32_MAX \div m \/ n <= I32_MIN \div m

wrapping_mul(n, m) ==
    LET low == (n % 65536) * m
        high == ((n \div 65536) * m + (low \div 65536)) % 65536
    IN  (IF high >= 32768 THEN high - 65536 ELSE high) * 65536 + (low % 65536)

\* a + b in i32: whether it overflows, and the wrapped sum
add_overflows(a, b) ==
    \/ b > 0 /\ a > I32_MAX - b
    \/ b < 0 /\ a < I32_MIN - b

wrapping_add(a, b) ==
    IF b > 0 /\ a > I32_MAX - b THEN (a - I32_MAX - 1) + (b - I32_MAX - 1)
    ELSE IF b < 0 /\ a < I32_MIN - b THEN (a + I32_MAX + 1) + (b + I32_MAX + 1)
    ELSE a + b

\* Option::unwrap_or
unwrap_or(option, default) == IF option = None THEN default ELSE option[1]

\* str::trim_start_matches(&[..])
RECURSIVE trim_start_matches(_, _)
trim_start_matches(s, chars) ==
    IF s # <<>> /\ s[1] \in chars THEN trim_start_matches(Tail(s), chars) ELSE s

\* str::contains(c)
contains(s, c) == \E i \in 1..Len(s) : s[i] = c

\* the result is [status, value]: status "panic" on an arithmetic overflow
\* under overflow checks, else "ok" with the Option<i32> returned
parse_timeshift(time_shift, overflow_checks) ==
    IF time_shift = None THEN [status |-> "ok", value |-> None]
    ELSE
    LET sign_factor == IF time_shift[1] # <<>> /\ time_shift[1][1] = "-"
                       THEN 0 - 1 ELSE 1
        offset == trim_start_matches(time_shift[1], {"-", "+"})
        with_colon ==
            LET parts == str_split(offset, ":")
                hours == IF parts[1] = <<>> THEN 0
                         ELSE unwrap_or(parse_i32(parts[1]), 0)
                minutes == IF Len(parts) > 1
                           THEN unwrap_or(parse_i32(parts[2]), 0)
                           ELSE 0
            IN  [overflow |-> \/ mul_overflows(hours, 60)
                              \/ add_overflows(wrapping_mul(hours, 60), minutes),
                 value |-> wrapping_add(wrapping_mul(hours, 60), minutes)]
        single ==
            LET num == unwrap_or(parse_i32(offset), 0)
            IN  [overflow |-> mul_overflows(num, 60),
                 value |-> wrapping_mul(num, 60)]
        total == IF contains(offset, ":") THEN with_colon ELSE single
        overflow == total.overflow
        total_minutes == total.value
    IN  IF overflow /\ overflow_checks THEN [status |-> "panic", value |-> None]
        ELSE IF total_minutes > 0
        THEN [status |-> "ok", value |-> Some(sign_factor * total_minutes)]
        ELSE [status |-> "ok", value |-> None]

(***************************************************************************)
(* quick-xml.  An attribute as the reader yields it is [ok, key, quote,    *)
(* value]: value is the raw text between the quotes, quote the quote       *)
(* character of the input, ok is FALSE when the attribute iterator yields  *)
(* Err in its place.  An element as the writer emits it has attributes     *)
(* [key, value]: value is the text written between double quotes.          *)
(***************************************************************************)
Entities ==
    [c \in {"&amp;", "&lt;", "&gt;", "&apos;", "&quot;"} |->
        CASE c = "&amp;" -> "&" [] c = "&lt;" -> "<" [] c = "&gt;" -> ">"
          [] c = "&apos;" -> "'" [] c = "&quot;" -> "\""]

\* Attribute::decode_and_unescape_value: None for Err, on a bare "&" or a
\* reference to an entity that is not predefined
decode_and_unescape_value(value) ==
    IF \E i \in 1..Len(value) :
           value[i] = "&" \/ value[i] = "&bogus;"
    THEN None
    ELSE Some([i \in 1..Len(value) |->
                  IF value[i] \in DOMAIN Entities THEN Entities[value[i]]
                  ELSE value[i]])

\* quick_xml::escape::escape, which Attribute::from((&str, &str)) applies
escape(s) ==
    [i \in 1..Len(s) |->
        IF \E e \in DOMAIN Entities : Entities[e] = s[i]
        THEN CHOOSE e \in DOMAIN Entities : Entities[e] = s[i]
        ELSE s[i]]

\* BytesStart::push_attribute: the value goes between double quotes as it is
push_attribute(elem, key, value) ==
    [elem EXCEPT !.attributes = Append(@, [key |-> key, value |-> value])]

\* the attribute loop of serve_epg_with_timeshift from attribute i on; the
\* result is [status, elem], status "panic" when expect fails
RECURSIVE rewrite_attributes(_, _, _, _)
rewrite_attributes(attributes, i, elem, duration) ==
    IF i > Len(attributes) THEN [status |-> "ok", elem |-> elem]
    ELSE LET attr == attributes[i]
         IN  IF attr.ok /\ attr.key \in {"start", "stop"}
             THEN LET value == decode_and_unescape_value(attr.value)
                  IN  IF value = None THEN [status |-> "panic", elem |-> elem]
                      ELSE rewrite_attributes(attributes, i + 1,
                               push_attribute(elem, attr.key,
                                   escape(time_correct(value[1], duration))),
                               duration)
             ELSE IF attr.ok
             THEN rewrite_attributes(attributes, i + 1,
                      push_attribute(elem, attr.key, attr.value), duration)
             ELSE rewrite_attributes(attributes, i + 1, elem, duration)

\* BytesStart::from(e.name())
BytesStart_from(name) == [kind |-> "Start", name |-> name, attributes |-> <<>>]

\* the event Reader::read_event_into yields at position pos of the file:
\* the events of the file in turn, then Eof
read_event_into(events, pos) ==
    IF pos < Len(events) THEN events[pos + 1] ELSE [kind |-> "Eof"]

\* xml_writer.write_event(Event::Start(elem)) unless the attribute loop
\* panicked; e is the result of the attribute loop
write_start(out, e) ==
    IF e.status = "panic" THEN [status |-> "panic", out |-> out]
    ELSE [status |-> "continue", out |-> Append(out, e.elem)]

\* one turn of the loop of serve_epg_with_timeshift on the rewriter state
\* r = [events, pos, out, duration]: [status, out], status "continue",
\* "break" or "panic"
rewrite_event(r) ==
    LET event == read_event_into(r.events, r.pos)
    IN  IF event.kind = "Start" /\ event.name = "programme"
        THEN write_start(r.out, rewrite_attributes(event.attributes, 1,
                                    BytesStart_from(event.name), r.duration))
        ELSE IF event.kind \in {"Eof", "Err"}
        THEN [status |-> "break", out |-> r.out]
        ELSE [status |-> "continue", out |-> Append(r.out, event)]

(***************************************************************************)
(* The handler xmltv_api.  A request is [user_target, config, fs,          *)
(* overflow_checks]: user_target is what get_user_target returns, None or  *)
(* Some([epg_timeshift, output]) with the user's time shift and the        *)
(* target's outputs; config holds the storage paths the configuration      *)
(* resolves for the target; fs maps each EPG path to [kind, readable,      *)
(* events], the kind "absent" or "file".                                   *)
(***************************************************************************)
\* repository::storage::get_target_storage_path
get_target_storage_path(config) == config.m3u_storage

\* repository::xtream_repository::xtream_get_storage_path
xtream_get_storage_path(config) == config.xtream_storage

\* repository::m3u_repository::m3u_get_epg_file_path
m3u_get_epg_file_path(target_path) == <<target_path, "m3u", "epg">>

\* repository::xtream_repository::xtream_get_epg_file_path
xtream_get_epg_file_path(storage_path) == <<storage_path, "xtream", "epg">>

\* file_utils::path_exists
path_exists(fs, file_path) == fs[file_path].kind = "file"

get_epg_path_for_target_of_type(fs, epg_path) ==
    IF path_exists(fs, epg_path) THEN Some(epg_path) ELSE None

\* the loop of get_epg_path_for_target from output i on
RECURSIVE get_epg_path_from(_, _, _, _)
get_epg_path_from(config, output, fs, i) ==
    IF i > Len(output) THEN None
    ELSE IF output[i] = "M3u" /\ get_target_storage_path(config) # None
    THEN get_epg_path_for_target_of_type(fs,
             m3u_get_epg_file_path(get_target_storage_path(config)[1]))
    ELSE IF output[i] = "Xtream" /\ xtream_get_storage_path(config) # None
    THEN get_epg_path_for_target_of_type(fs,
             xtream_get_epg_file_path(xtream_get_storage_path(config)[1]))
    ELSE get_epg_path_from(config, output, fs, i + 1)

get_epg_path_for_target(config, target, fs) ==
    get_epg_path_from(config, target.output, fs, 1)

\* File::open
File_open(fs, path) == fs[path].kind = "file" /\ fs[path].readable

\* the responses
EmptyTv ==
    [status |-> 200, content_type |-> "text/xml", content_encoding |-> "",
     body |-> <<"tv">>]

NoContent ==
    [status |-> 204, content_type |-> "", content_encoding |-> "", body |-> <<>>]

\* api_utils::serve_file
serve_file(fs, path, mime) ==
    [status |-> 200, content_type |-> mime, content_encoding |-> "",
     body |-> <<"file", fs[path].events>>]

\* GzEncoder::finish and the response of serve_epg_with_timeshift
GzipResponse(out) ==
    [status |-> 200, content_type |-> "application/octet-stream",
     content_encoding |-> "gzip", body |-> <<"gzip", out>>]

NoRewriter == [events |-> <<>>, pos |-> 0, out |-> <<>>, duration |-> 0]

\* serve_epg up to the loop of serve_epg_with_timeshift: [pc, response,
\* shift, rewriter], pc "done" with the response, "panic", or "rewrite";
\* serve_epg_file is its branch for a file that opened, shift the result of
\* parse_timeshift
serve_epg_file(fs, epg_path, shift) ==
    IF shift.status = "panic"
    THEN [pc |-> "panic", response |-> None, shift |-> None,
          rewriter |-> NoRewriter]
    ELSE IF shift.value = None
    THEN [pc |-> "done", response |-> Some(serve_file(fs, epg_path, "text/xml")),
          shift |-> None, rewriter |-> NoRewriter]
    ELSE [pc |-> "rewrite", response |-> None, shift |-> shift.value,
          rewriter |-> [events |-> fs[epg_path].events, pos |-> 0,
                        out |-> <<>>, duration |-> shift.value[1]]]

serve_epg(fs, epg_path, user, overflow_checks) ==
    IF ~File_open(fs, epg_path)
    THEN [pc |-> "done", response |-> Some(NoContent), shift |-> None,
          rewriter |-> NoRewriter]
    ELSE serve_epg_file(fs, epg_path,
                        parse_timeshift(user.epg_timeshift, overflow_checks))

\* xmltv_api up to the loop of serve_epg_with_timeshift
xmltv_api(request) ==
    LET epg_path == get_epg_path_for_target(request.config,
                        request.user_target[1], request.fs)
    IN  IF request.user_target = None \/ epg_path = None
        THEN [pc |-> "done", response |-> Some(EmptyTv), shift |-> None,
              rewriter |-> NoRewriter]
        ELSE serve_epg(request.fs, epg_path[1], request.user_target[1],
                       request.overflow_checks)

\* xmltv holds the request, the position of the handler, the response when
\* there is one, the time shift in use and the state of the rewriter
XmltvApi ==
    /\ xmltv.pc = "request"
    /\ xmltv' = [request |-> xmltv.request] @@ xmltv_api(xmltv.request)
    /\ UNCHANGED <<cfg, tree, stored, dup, ninserts, file, ser, handle, res, item,
                   playlist, json>>

\* the handler x after a turn r of the loop: on break it finishes the gzip
\* stream and returns
after_event(x, r) ==
    [x EXCEPT
        !.pc = CASE r.status = "continue" -> "rewrite"
                 [] r.status = "break" -> "done"
                 [] OTHER -> "panic",
        !.response = IF r.status = "break" THEN Some(GzipResponse(r.out))
                     ELSE None,
        !.rewriter = [@ EXCEPT !.out = r.out,
                               !.pos = IF r.status = "continue" THEN @ + 1
                                       ELSE @]]

\* one turn of the loop of serve_epg_with_timeshift
ReadEvent ==
    /\ xmltv.pc = "rewrite"
    /\ xmltv' = after_event(xmltv, rewrite_event(xmltv.rewriter))
    /\ UNCHANGED <<cfg, tree, stored, dup, ninserts, file, ser, handle, res, item,
                   playlist, json>>

NextXmltv == XmltvApi \/ ReadEvent

\* every sequence over set of a length up to n
SeqsUpTo(set, n) == UNION { [1..k -> set] : k \in 0..n }

ReadableFile(events) == [kind |-> "file", readable |-> TRUE, events |-> events]
UnreadableFile == [kind |-> "file", readable |-> FALSE, events |-> <<>>]
AbsentFile == [kind |-> "absent", readable |-> FALSE, events |-> <<>>]

Attr(key, quote, value) == [ok |-> TRUE, key |-> key, quote |-> quote, value |-> value]

\* <tv><programme start="20240115103000 +0000" channel="ab">t</programme>
SmallDocument ==
    << [kind |-> "Start", name |-> "tv", attributes |-> <<>>],
       [kind |-> "Start", name |-> "programme",
        attributes |-> << Attr("start", "\"",
                               Local(2024, 1, 15, 10, 30, 0)
                                   \o <<" ", "+", "0", "0", "0", "0">>),
                          Attr("channel", "\"", <<"a", "b">>) >>],
       [kind |-> "Text", name |-> "t", attributes |-> <<>>],
       [kind |-> "End", name |-> "programme", attributes |-> <<>>] >>

XmltvRequest(request) ==
    [pc |-> "request", request |-> request, response |-> None, shift |-> None,
     rewriter |-> NoRewriter]

(***************************************************************************)
(* Requests of one user for one target with an EPG file, over the time     *)
(* shift strings: every string of up to MaxShiftLen characters of          *)
(* ShiftChars, the examples of the documentation, and one whose hours      *)
(* overflow an i32 when turned into minutes.                               *)
(***************************************************************************)
MaxShiftLen == 3

ShiftChars == {"-", "+", ":", "0", "2", "3"}

TimeShifts ==
    SeqsUpTo(ShiftChars, MaxShiftLen)
        \cup { <<"-", "2", ":", "3", "0">>, <<"1", ":", "4", "5">>,
               <<"+", "0", ":", "1", "5">>, <<"1", ":", "-", "9", "0">>,
               <<"3", "5", "7", "9", "1", "3", "9", "5">> }

InitShift ==
    /\ InitNoTree
    /\ item = Idle
    /\ playlist = Idle
    /\ json = Idle
    /\ \E epg_timeshift \in {None} \cup { Some(s) : s \in TimeShifts },
          overflow_checks \in BOOLEAN :
           xmltv = XmltvRequest(
               [user_target |-> Some([epg_timeshift |-> epg_timeshift,
                                      output |-> <<"M3u">>]),
                config |-> [m3u_storage |-> Some("m3u_dir"),
                            xtream_storage |-> None],
                fs |-> [p \in {m3u_get_epg_file_path("m3u_dir")} |->
                           ReadableFile(SmallDocument)],
                overflow_checks |-> overflow_checks])

SpecShift == InitShift /\ [][NextXmltv]_vars

(***************************************************************************)
(* Requests over the users, targets, configurations and file systems: a    *)
(* target has up to MaxOutputs outputs, each storage path resolves or not, *)
(* each EPG file is absent, readable or unreadable.                        *)
(***************************************************************************)
MaxOutputs == 2

EpgPaths == { m3u_get_epg_file_path("m3u_dir"), xtream_get_epg_file_path("xt_dir") }

InitXmltv ==
    /\ InitNoTree
    /\ item = Idle
    /\ playlist = Idle
    /\ json = Idle
    /\ \E user_target \in
              {None} \cup
              { Some([epg_timeshift |-> t, output |-> o]) :
                    t \in {None, Some(<<"0">>), Some(<<"+", "2">>)},
                    o \in SeqsUpTo({"M3u", "Xtream", "Strm"}, MaxOutputs) },
          config \in [m3u_storage : {None, Some("m3u_dir")},
                      xtream_storage : {None, Some("xt_dir")}],
          fs \in [EpgPaths -> {AbsentFile, UnreadableFile,
                               ReadableFile(SmallDocument)}] :
           xmltv = XmltvRequest([user_target |-> user_target, config |-> config,
                                 fs |-> fs, overflow_checks |-> TRUE])

SpecXmltv == InitXmltv /\ [][NextXmltv]_vars

(***************************************************************************)
(* The rewriter over the EPG files of up to MaxEvents events: programme    *)
(* start elements with attributes in several orders, quoted either way,    *)
(* with entity references, with an attribute the reader rejects or a start *)
(* value it cannot decode; other elements, text, and a read error.         *)
(***************************************************************************)
MaxEvents == 2

StartAttr == Attr("start", "\"", Local(2024, 1, 15, 10, 30, 0)
                                     \o <<" ", "+", "0", "0", "0", "0">>)
StopAttr == Attr("stop", "'", Local(2024, 1, 15, 23, 30, 0)
                                  \o <<" ", "+", "0", "1", "0", "0">>)
ChannelAttr == Attr("channel", "\"", <<"a", "b">>)
EntityAttr == Attr("channel", "\"", <<"a", "&amp;", "b", "'">>)
SingleQuotedAttr == Attr("channel", "'", <<"a", "\"", "b">>)
OddStartAttr == Attr("start", "\"", <<"x", "'", "&lt;">>)
RejectedAttr == [ok |-> FALSE, key |-> "lang", quote |-> "\"", value |-> <<"e", "n">>]
UndecodableAttr == Attr("start", "\"", <<"&bogus;">>)

AttributeLists ==
    { <<StartAttr, StopAttr, ChannelAttr>>, <<ChannelAttr, StartAttr>>,
      <<StopAttr, EntityAttr>>, <<SingleQuotedAttr, StartAttr>>,
      <<OddStartAttr>>, <<StartAttr, RejectedAttr, ChannelAttr>>,
      <<UndecodableAttr, ChannelAttr>>, <<>> }

Events ==
    { [kind |-> "Start", name |-> "programme", attributes |-> a] :
          a \in AttributeLists }
    \cup { [kind |-> "Start", name |-> "tv", attributes |-> <<ChannelAttr>>],
           [kind |-> "Empty", name |-> "programme", attributes |-> <<StartAttr>>],
           [kind |-> "End", name |-> "programme", attributes |-> <<>>],
           [kind |-> "Text", name |-> "t", attributes |-> <<>>],
           [kind |-> "Err", name |-> "", attributes |-> <<>>] }

InitRewriter ==
    /\ InitNoTree
    /\ item = Idle
    /\ playlist = Idle
    /\ json = Idle
    /\ \E events \in SeqsUpTo(Events, MaxEvents),
          epg_timeshift \in { <<"1", ":", "3", "0">>, <<"-", "2", ":", "3", "0">> } :
           xmltv = XmltvRequest(
               [user_target |-> Some([epg_timeshift |-> Some(epg_timeshift),
                                      output |-> <<"Strm", "Xtream">>]),
                config |-> [m3u_storage |-> None,
                            xtream_storage |-> Some("xt_dir")],
                fs |-> [p \in {xtream_get_epg_file_path("xt_dir")} |->
                           ReadableFile(events)],
                overflow_checks |-> TRUE])

SpecRewriter == InitRewriter /\ [][NextXmltv]_vars

(***************************************************************************)
(* src/model/playlist.rs.  A PlaylistItemHeader is a record of its fields; *)
(* uuid is a hash or the all-zero array of Default.                        *)
(***************************************************************************)
ItemTypes ==
    {"Live", "Video", "Series", "SeriesInfo", "SeriesEpisode", "Catchup",
     "LiveUnknown", "LiveHls"}

Clusters == {"Live", "Video", "Series"}

\* Result<T, E>
Ok(x) == [ok |-> TRUE, value |-> x]
Err(e) == [ok |-> FALSE, value |-> e]

\* impl TryFrom<PlaylistItemType> for XtreamCluster
XtreamCluster_try_from(item_type) ==
    CASE item_type = "Live" -> Ok("Live")
      [] item_type = "Video" -> Ok("Video")
      [] item_type = "Series" -> Ok("Series")
      [] OTHER -> Err("Cant convert")

\* impl From<XtreamCluster> for PlaylistItemType
PlaylistItemType_from(xtream_cluster) ==
    CASE xtream_cluster = "Live" -> "Live"
      [] xtream_cluster = "Video" -> "Video"
      [] xtream_cluster = "Series" -> "SeriesInfo"

\* repository::storage::hash_string: a digest, which no string maps to the
\* all-zero array
hash_string(s) == <<"hash", s>>

ZeroUuid == <<"zero">>

\* PlaylistItemHeader::default
PlaylistItemHeader_default ==
    [uuid |-> ZeroUuid, id |-> <<>>, virtual_id |-> 0, name |-> <<>>,
     chno |-> <<>>, logo |-> <<>>, logo_small |-> <<>>, group |-> <<>>,
     title |-> <<>>, parent_code |-> <<>>, audio_track |-> <<>>,
     time_shift |-> <<>>, rec |-> <<>>, url |-> <<>>, epg_channel_id |-> None,
     xtream_cluster |-> "Live", additional_properties |-> None,
     item_type |-> "Live", series_fetched |-> FALSE, category_id |-> 0,
     input_id |-> 0]

gen_uuid(header) == [header EXCEPT !.uuid = hash_string(header.url)]

get_uuid(header) == header.uuid

\* processing::m3u_parser::extract_id_from_url: the last path component of
\* the url without its extension
extract_id_from_url(url) ==
    LET parts == str_split(url, "/")
        last == parts[Len(parts)]
        stem == str_split(last, ".")
    IN  IF Len(stem) = 1 THEN Some(last)
        ELSE Some(SubSeq(last, 1, Len(last) - Len(stem[Len(stem)]) - 1))

\* the Err arm of get_provider_id; newid is the u32 parsed from the url
provider_id_from_url(header, newid) ==
    IF newid = None THEN [header |-> header, ret |-> None]
    ELSE [header |-> [header EXCEPT !.id = to_string(newid[1])], ret |-> newid]

\* get_provider_id changes the header and returns: [header, ret]
get_provider_id_unpersisted(header) ==
    IF parse_u32(header.id) # None
    THEN [header |-> header, ret |-> parse_u32(header.id)]
    ELSE [header |-> header,
          ret |-> parse_u32(extract_id_from_url(header.url)[1])]

get_provider_id(header) ==
    IF parse_u32(header.id) # None
    THEN [header |-> header, ret |-> parse_u32(header.id)]
    ELSE provider_id_from_url(header,
             parse_u32(extract_id_from_url(header.url)[1]))

\* the fields generate_field_accessor_impl_for_playlist_item_header! lists
AccessorProps ==
    {"id", "name", "chno", "logo", "logo_small", "group", "title",
     "parent_code", "audio_track", "time_shift", "rec", "url"}

\* FieldAccessor::get_field
get_field(header, field) ==
    IF field \in AccessorProps THEN Some(header[field])
    ELSE IF field \in {"epg_channel_id", "epg_id"} THEN header.epg_channel_id
    ELSE None

\* FieldAccessor::set_field changes the header and returns: [header, ret]
set_field_without_alias(header, field, value) ==
    IF field \in AccessorProps
    THEN [header |-> [header EXCEPT ![field] = value], ret |-> TRUE]
    ELSE IF field = "epg_channel_id"
    THEN [header |-> [header EXCEPT !.epg_channel_id = Some(value)], ret |-> TRUE]
    ELSE [header |-> header, ret |-> FALSE]

set_field(header, field, value) ==
    IF field \in AccessorProps
    THEN [header |-> [header EXCEPT ![field] = value], ret |-> TRUE]
    ELSE IF field \in {"epg_channel_id", "epg_id"}
    THEN [header |-> [header EXCEPT !.epg_channel_id = Some(value)], ret |-> TRUE]
    ELSE [header |-> header, ret |-> FALSE]

\* PlaylistItem::to_xtream
to_xtream(header) ==
    [virtual_id |-> header.virtual_id,
     provider_id |-> unwrap_or(parse_u32(header.id), 0),
     name |-> header.name, logo |-> header.logo,
     logo_small |-> header.logo_small, group |-> header.group,
     title |-> header.title, parent_code |-> header.parent_code,
     rec |-> header.rec, url |-> header.url,
     epg_channel_id |-> header.epg_channel_id,
     xtream_cluster |-> header.xtream_cluster,
     additional_properties |-> header.additional_properties,
     item_type |-> header.item_type, series_fetched |-> header.series_fetched,
     category_id |-> header.category_id, input_id |-> header.input_id]

\* PlaylistGroup::on_load on the group that holds the item
on_load(header) == gen_uuid(header)

(***************************************************************************)
(* One item: item = [pc, header, sets, ret], sets the number of set_field  *)
(* calls made and ret the last call, its argument and what it returned, in *)
(* the field of its type: flag a bool, text an Option<Rc<String>>, number  *)
(* an Option<u32>, result a Result<XtreamCluster, _>, name a               *)
(* PlaylistItemType.                                                       *)
(***************************************************************************)
MaxSets == 2

FieldNames ==
    AccessorProps \cup {"epg_channel_id", "epg_id", "virtual_id", "uuid"}

\* the values set_field is called with: ids and urls with and without a
\* number, the number in or out of the range of u32
FieldValues(field) ==
    CASE field = "id" ->
            { <<>>, <<"1", "2">>, <<"+", "0", "7">>, <<"x">>,
              <<"4", "2", "9", "4", "9", "6", "7", "2", "9", "6">> }
      [] field = "url" ->
            { <<>>, <<"h", "/", "3", "4", ".", "t", "s">>,
              <<"h", "/", "0", "5">>, <<"h", "/", "x", ".", "t", "s">>,
              <<"h", "/", "9", "9", "9", "9", "9", "9", "9", "9", "9", "9", "9">> }
      [] OTHER -> { <<>>, <<"v">> }

Ret(op, arg) ==
    [op |-> op, arg |-> arg, flag |-> FALSE, text |-> None, number |-> None,
     result |-> Err(""), name |-> ""]

NoRet == Ret("none", "")

InitItem ==
    /\ InitNoTree
    /\ xmltv = Idle
    /\ playlist = Idle
    /\ json = Idle
    /\ item = [pc |-> "item", header |-> PlaylistItemHeader_default, sets |-> 0,
               ret |-> NoRet]

OnLoad ==
    /\ item.pc = "item"
    /\ item' = [item EXCEPT !.header = on_load(@),
                            !.ret = Ret("on_load", "")]
    /\ UNCHANGED <<cfg, tree, stored, dup, ninserts, file, ser, handle, res, xmltv,
                   playlist, json>>

GenUuid ==
    /\ item.pc = "item"
    /\ item' = [item EXCEPT !.header = gen_uuid(@),
                            !.ret = Ret("gen_uuid", "")]
    /\ UNCHANGED <<cfg, tree, stored, dup, ninserts, file, ser, handle, res, xmltv,
                   playlist, json>>

\* the item x after set_field(field, _) with the result r = [header, ret]
after_set_field(x, field, r) ==
    [x EXCEPT !.header = r.header, !.sets = @ + 1,
              !.ret = [Ret("set_field", field) EXCEPT !.flag = r.ret]]

\* the item x after get_provider_id() with the result r = [header, ret]
after_get_provider_id(x, r) ==
    [x EXCEPT !.header = r.header,
              !.ret = [Ret("get_provider_id", "") EXCEPT !.number = r.ret]]

SetField(field, value) ==
    /\ item.pc = "item"
    /\ item.sets < MaxSets
    /\ item' = after_set_field(item, field, set_field(item.header, field, value))
    /\ UNCHANGED <<cfg, tree, stored, dup, ninserts, file, ser, handle, res, xmltv,
                   playlist, json>>

GetField(field) ==
    /\ item.pc = "item"
    /\ item' = [item EXCEPT !.ret = [Ret("get_field", field) EXCEPT
                                         !.text = get_field(item.header, field)]]
    /\ UNCHANGED <<cfg, tree, stored, dup, ninserts, file, ser, handle, res, xmltv,
                   playlist, json>>

GetProviderId ==
    /\ item.pc = "item"
    /\ item' = after_get_provider_id(item, get_provider_id(item.header))
    /\ UNCHANGED <<cfg, tree, stored, dup, ninserts, file, ser, handle, res, xmltv,
                   playlist, json>>

ToXtream ==
    /\ item.pc = "item"
    /\ item' = [item EXCEPT !.ret = [Ret("to_xtream", "") EXCEPT
                                         !.number = Some(to_xtream(item.header).provider_id)]]
    /\ UNCHANGED <<cfg, tree, stored, dup, ninserts, file, ser, handle, res, xmltv,
                   playlist, json>>

ClusterTryFrom(item_type) ==
    /\ item.pc = "item"
    /\ item' = [item EXCEPT !.ret = [Ret("XtreamCluster::try_from", item_type) EXCEPT
                                         !.result = XtreamCluster_try_from(item_type)]]
    /\ UNCHANGED <<cfg, tree, stored, dup, ninserts, file, ser, handle, res, xmltv,
                   playlist, json>>

ItemTypeFrom(xtream_cluster) ==
    /\ item.pc = "item"
    /\ item' = [item EXCEPT !.ret = [Ret("PlaylistItemType::from", xtream_cluster) EXCEPT
                                         !.name = PlaylistItemType_from(xtream_cluster)]]
    /\ UNCHANGED <<cfg, tree, stored, dup, ninserts, file, ser, handle, res, xmltv,
                   playlist, json>>

NextItem ==
    \/ OnLoad
    \/ GenUuid
    \/ \E field \in FieldNames : \E value \in FieldValues(field) :
           SetField(field, value)
    \/ \E field \in FieldNames : GetField(field)
    \/ GetProviderId
    \/ ToXtream
    \/ \E item_type \in ItemTypes : ClusterTryFrom(item_type)
    \/ \E xtream_cluster \in Clusters : ItemTypeFrom(xtream_cluster)

SpecItem == InitItem /\ [][NextItem]_vars

(***************************************************************************)
(* M3uPlaylistItem::to_m3u.  The line is the sequence of its characters,   *)
(* the literal pieces of the format strings one element each.              *)
(***************************************************************************)
\* to_m3u_non_empty_fields!(header, line, (prop, field), ...;)
RECURSIVE to_m3u_non_empty_fields(_, _, _)
to_m3u_non_empty_fields(header, line, props) ==
    IF props = <<>> THEN line
    ELSE to_m3u_non_empty_fields(
             header,
             IF header[props[1][1]] # <<>>
             THEN line \o <<" ", props[1][2], "=\"">> \o header[props[1][1]]
                       \o <<"\"">>
             ELSE line,
             Tail(props))

\* the line before the logo attributes
extinf(self) ==
    <<"#EXTINF:-1", " ", "tvg-id", "=\"">>
        \o (IF self.epg_channel_id = None THEN <<>> ELSE self.epg_channel_id[1])
        \o <<"\"", " ", "tvg-name", "=\"">> \o self.name
        \o <<"\"", " ", "group-title", "=\"">> \o self.group \o <<"\"">>

\* the line from the logo attributes on, given ignore_logo
to_m3u_line(self, ignore_logo, url) ==
    to_m3u_non_empty_fields(self,
        IF ~ignore_logo
        THEN to_m3u_non_empty_fields(self, extinf(self),
                 << <<"logo", "tvg-logo">>, <<"logo_small", "tvg-logo-small">> >>)
        ELSE extinf(self),
        << <<"chno", "tvg-chno">>, <<"parent_code", "parent-code">>,
           <<"audio_track", "audio-track">>, <<"time_shift", "timeshift">>,
           <<"rec", "tvg-rec">> >>)
        \o <<",">> \o self.title \o <<"\n">>
        \o (IF url = None THEN self.url ELSE url[1])

to_m3u_logo_kept(self, target_options, url) == to_m3u_line(self, FALSE, url)

to_m3u(self, target_options, url) ==
    to_m3u_line(self, target_options # None /\ target_options[1].ignore_logo, url)

\* the items to_m3u is called on: every field empty or not
M3uPlaylistItems ==
    [virtual_id : {1}, provider_id : {<<"7">>}, name : {<<>>, <<"N">>},
     chno : {<<>>, <<"5">>}, logo : {<<>>, <<"L">>},
     logo_small : {<<>>, <<"l">>}, group : {<<>>, <<"G">>},
     title : {<<>>, <<"T">>}, parent_code : {<<>>, <<"P">>},
     audio_track : {<<>>, <<"A">>}, time_shift : {<<>>, <<"S">>},
     rec : {<<>>, <<"R">>}, url : {<<"U">>},
     epg_channel_id : {None, Some(<<>>), Some(<<"E">>)},
     input_id : {1}, item_type : {"Live"}]

TargetOptions ==
    {None, Some([ignore_logo |-> FALSE]), Some([ignore_logo |-> TRUE])}

InitM3u ==
    /\ InitNoTree
    /\ xmltv = Idle
    /\ playlist = Idle
    /\ json = Idle
    /\ \E self \in M3uPlaylistItems, target_options \in TargetOptions,
          url \in {None, Some(<<"u">>)} :
           item = [pc |-> "to_m3u", self |-> self,
                   target_options |-> target_options, url |-> url,
                   line |-> <<>>]

ToM3u ==
    /\ item.pc = "to_m3u"
    /\ item' = [item EXCEPT !.pc = "m3u",
                            !.line = to_m3u(item.self, item.target_options,
                                            item.url)]
    /\ UNCHANGED <<cfg, tree, stored, dup, ninserts, file, ser, handle, res, xmltv,
                   playlist, json>>

NextM3u == ToM3u

SpecM3u == InitM3u /\ [][NextM3u]_vars

(***************************************************************************)
(* src/m3u_processing.rs.  A PlaylistGroup is [title, channels], a         *)
(* PlaylistItem [header |-> [group, name, title], url], a ConfigTarget     *)
(* [filename, rename, sort, output, options, filter], a rename rule        *)
(* [field, re, new_name].  A Regex is the sequence of the characters of a  *)
(* literal pattern, which is not empty.  The file system is the set of its *)
(* directories and the set of its files [path, content], a path below the  *)
(* root of the target the tuple of its components.                         *)
(***************************************************************************)
\* the code points of the characters of the strings
CodePoint ==
    [c \in {" ", "!", "7", "B", "a", "b"} |->
        CASE c = " " -> 32 [] c = "!" -> 33 [] c = "7" -> 55
          [] c = "B" -> 66 [] c = "a" -> 97 [] c = "b" -> 98]

is_alphanumeric(c) == c \in {"7", "B", "a", "b"}

is_whitespace(c) == c = " "

\* String::partial_cmp(..).unwrap(): the order of the strings by their bytes
RECURSIVE cmp(_, _)
cmp(a, b) ==
    IF a = <<>> THEN (IF b = <<>> THEN "Equal" ELSE "Less")
    ELSE IF b = <<>> THEN "Greater"
    ELSE IF CodePoint[a[1]] < CodePoint[b[1]] THEN "Less"
    ELSE IF CodePoint[a[1]] > CodePoint[b[1]] THEN "Greater"
    ELSE cmp(Tail(a), Tail(b))

\* Ordering::reverse
reverse(ordering) ==
    CASE ordering = "Less" -> "Greater"
      [] ordering = "Greater" -> "Less"
      [] OTHER -> "Equal"

\* the closure of sort_playlist
compare_groups(a, b, order) ==
    IF order = "Asc" THEN cmp(a.title, b.title) ELSE reverse(cmp(a.title, b.title))

\* slice::sort_by, a stable sort: x goes behind the elements of the sorted
\* s that are not greater
RECURSIVE sorted_insert(_, _, _)
sorted_insert(s, x, order) ==
    IF s = <<>> THEN <<x>>
    ELSE IF compare_groups(x, s[1], order) = "Less" THEN <<x>> \o s
    ELSE <<s[1]>> \o sorted_insert(Tail(s), x, order)

RECURSIVE sort_by(_, _)
sort_by(s, order) ==
    IF s = <<>> THEN <<>>
    ELSE sorted_insert(sort_by(SubSeq(s, 1, Len(s) - 1), order), s[Len(s)], order)

sort_playlist_ascending(target, new_playlist) ==
    IF target.sort # None THEN sort_by(new_playlist, "Asc") ELSE new_playlist

sort_playlist(target, new_playlist) ==
    IF target.sort # None
    THEN sort_by(new_playlist, target.sort[1].order)
    ELSE new_playlist

\* Regex::is_match for a literal pattern
is_match(re, text) ==
    \E i \in 1..(Len(text) - Len(re) + 1) : SubSeq(text, i, i + Len(re) - 1) = re

\* Regex::replace_all for a literal pattern: the matches from the left that
\* do not overlap
RECURSIVE replace_all(_, _, _)
replace_all(re, text, rep) ==
    IF Len(text) < Len(re) THEN text
    ELSE IF SubSeq(text, 1, Len(re)) = re
    THEN rep \o replace_all(re, SubSeq(text, Len(re) + 1, Len(text)), rep)
    ELSE <<text[1]>> \o replace_all(re, Tail(text), rep)

\* the title of a group after the Group rules from rule i on
RECURSIVE rename_title(_, _, _)
rename_title(title, rename, i) ==
    IF i > Len(rename) THEN title
    ELSE rename_title(IF rename[i].field = "Group"
                      THEN replace_all(rename[i].re, title, rename[i].new_name)
                      ELSE title,
                      rename, i + 1)

rename_playlist(groups, target) ==
    [g \in 1..Len(groups) |->
        [groups[g] EXCEPT !.title = rename_title(@, target.rename, 1)]]

get_field_value(pli, field) ==
    CASE field = "Group" -> pli.header.group
      [] field = "Name" -> pli.header.name
      [] field = "Title" -> pli.header.title
      [] field = "Url" -> pli.url

set_field_value_url(pli, field, value) ==
    CASE field = "Group" -> [pli EXCEPT !.header.group = value]
      [] field = "Name" -> [pli EXCEPT !.header.name = value]
      [] field = "Title" -> [pli EXCEPT !.header.title = value]
      [] field = "Url" -> [pli EXCEPT !.url = value]

set_field_value(pli, field, value) ==
    CASE field = "Group" -> [pli EXCEPT !.header.group = value]
      [] field = "Name" -> [pli EXCEPT !.header.name = value]
      [] field = "Title" -> [pli EXCEPT !.header.title = value]
      [] field = "Url" -> pli

\* filter::ValueProvider and ConfigTarget::filter: the filter of the target
\* is a pattern for one field, to match or not to match
target_filter(target, pli) ==
    is_match(target.filter.re, get_field_value(pli, target.filter.field))
        = target.filter.matches

is_valid(pli, target) == target_filter(target, pli)

\* the loop of exec_rename from rule i on
RECURSIVE exec_rename_from(_, _, _)
exec_rename_from(result, rename, i) ==
    IF i > Len(rename) THEN result
    ELSE exec_rename_from(
             set_field_value(result, rename[i].field,
                 replace_all(rename[i].re,
                             get_field_value(result, rename[i].field),
                             rename[i].new_name)),
             rename, i + 1)

exec_rename(pli, rename) ==
    IF Len(rename) > 0 THEN Some(exec_rename_from(pli, rename, 1)) ELSE None

\* the character sanitize_for_filename keeps for c
sanitize_char(c, underscore_whitespace) ==
    IF underscore_whitespace /\ is_whitespace(c) THEN "_" ELSE c

RECURSIVE sanitize_for_filename(_, _)
sanitize_for_filename(text, underscore_whitespace) ==
    IF text = <<>> THEN <<>>
    ELSE (IF is_alphanumeric(text[1]) \/ is_whitespace(text[1])
          THEN <<sanitize_char(text[1], underscore_whitespace)>>
          ELSE <<>>)
         \o sanitize_for_filename(Tail(text), underscore_whitespace)

\* utils::get_file_path(&cfg.working_dir, Some(PathBuf::from(&target.filename)))
get_file_path(wd, path) ==
    IF path = None THEN None ELSE Some(<<wd, path[1]>>)

\* m3u::PlaylistItem::to_m3u: the two lines of the entry
PlaylistItem_to_m3u(pli, options) ==
    extinf([epg_channel_id |-> None, name |-> pli.header.name,
            group |-> pli.header.group])
        \o <<",">> \o pli.header.title \o <<"\n">> \o pli.url

\* the file system
NoFiles == [dirs |-> {}, files |-> {}]

IsBelow(path, root) == Len(path) >= Len(root) /\ SubSeq(path, 1, Len(root)) = root

remove_dir_all(fs, path) ==
    [dirs |-> { d \in fs.dirs : ~IsBelow(d, path) },
     files |-> { f \in fs.files : ~IsBelow(f.path, path) }]

create_dir_all(fs, path) ==
    [fs EXCEPT !.dirs = @ \cup { SubSeq(path, 1, n) : n \in 2..Len(path) }]

File_create(fs, path) ==
    [fs EXCEPT !.files = { f \in @ : f.path # path }
                             \cup {[path |-> path, content |-> <<>>]}]

File_write(fs, path, bytes) ==
    [fs EXCEPT !.files = { IF f.path = path
                           THEN [f EXCEPT !.content = @ \o bytes] ELSE f :
                           f \in @ }]

\* what the loop of write_strm_playlist does with one channel
write_strm_channel(fs, path, pli, underscore_whitespace) ==
    IF pli = None THEN fs
    ELSE File_write(
             File_create(
                 create_dir_all(fs,
                     Append(path, sanitize_for_filename(pli[1].header.group,
                                                        underscore_whitespace))),
                 path \o << sanitize_for_filename(pli[1].header.group,
                                                  underscore_whitespace),
                            sanitize_for_filename(pli[1].header.title,
                                                  underscore_whitespace)
                                \o <<".strm">> >>),
             path \o << sanitize_for_filename(pli[1].header.group,
                                              underscore_whitespace),
                        sanitize_for_filename(pli[1].header.title,
                                              underscore_whitespace)
                            \o <<".strm">> >>,
             pli[1].url)

\* what the loop of write_m3u_playlist does with one channel
write_m3u_channel(fs, path, pli, renamed, options) ==
    File_write(fs, path,
               PlaylistItem_to_m3u(IF renamed = None THEN pli ELSE renamed[1],
                                   options) \o <<"\n">>)

\* the target writes a Strm tree
IsStrm(target) == target.output # None /\ target.output[1] = "Strm"

\* map_or(false, ..) on the options of the target
option_of(target, name) == target.options # None /\ target.options[1][name]

(***************************************************************************)
(* write_m3u for one target, a step at a time: playlist = [pc, playlist,   *)
(* target, new_playlist, fs, g, c, emitted, result] with g and c the group *)
(* and the channel the loop is at and emitted the items written so far.    *)
(***************************************************************************)
WorkingDir == "wd"

RenamePlaylist ==
    /\ playlist.pc = "write_m3u"
    /\ playlist' = [playlist EXCEPT
                        !.pc = "sort_playlist",
                        !.new_playlist = rename_playlist(playlist.playlist,
                                                         playlist.target)]
    /\ UNCHANGED <<cfg, tree, stored, dup, ninserts, file, ser, handle, res,
                   xmltv, item, json>>

SortPlaylist ==
    /\ playlist.pc = "sort_playlist"
    /\ playlist' = [playlist EXCEPT
                        !.pc = "write",
                        !.new_playlist = sort_playlist(playlist.target, @)]
    /\ UNCHANGED <<cfg, tree, stored, dup, ninserts, file, ser, handle, res,
                   xmltv, item, json>>

\* write_strm_playlist and write_m3u_playlist up to their loops
open_output(fs, target, path) ==
    IF IsStrm(target)
    THEN create_dir_all(IF option_of(target, "cleanup")
                        THEN remove_dir_all(fs, path) ELSE fs,
                        path)
    ELSE File_write(File_create(fs, path), path, <<"#EXTM3U\n">>)

OpenOutput ==
    /\ playlist.pc = "write"
    /\ playlist' = [playlist EXCEPT
                        !.pc = "loop",
                        !.fs = open_output(@, playlist.target,
                                   get_file_path(WorkingDir,
                                       Some(playlist.target.filename))[1])]
    /\ UNCHANGED <<cfg, tree, stored, dup, ninserts, file, ser, handle, res,
                   xmltv, item, json>>

\* the body of the loops for the channel pli, renamed the result of
\* exec_rename: the file system and the items written
write_channel(x, path, pli, renamed) ==
    IF ~is_valid(pli, x.target) THEN [fs |-> x.fs, emitted |-> x.emitted]
    ELSE IF IsStrm(x.target)
    THEN [fs |-> write_strm_channel(x.fs, path, renamed,
                     option_of(x.target, "underscore_whitespace")),
          emitted |-> IF renamed = None THEN x.emitted
                      ELSE Append(x.emitted, renamed[1])]
    ELSE [fs |-> write_m3u_channel(x.fs, path, pli, renamed, x.target.options),
          emitted |-> Append(x.emitted,
                             IF renamed = None THEN pli ELSE renamed[1])]

after_channel(x, r) ==
    [x EXCEPT !.fs = r.fs, !.emitted = r.emitted, !.c = @ + 1]

WriteChannel ==
    /\ playlist.pc = "loop"
    /\ playlist.g <= Len(playlist.new_playlist)
    /\ playlist.c <= Len(playlist.new_playlist[playlist.g].channels)
    /\ playlist' =
           after_channel(playlist,
               write_channel(playlist,
                   get_file_path(WorkingDir, Some(playlist.target.filename))[1],
                   playlist.new_playlist[playlist.g].channels[playlist.c],
                   exec_rename(playlist.new_playlist[playlist.g].channels[playlist.c],
                               playlist.target.rename)))
    /\ UNCHANGED <<cfg, tree, stored, dup, ninserts, file, ser, handle, res,
                   xmltv, item, json>>

NextGroup ==
    /\ playlist.pc = "loop"
    /\ playlist.g <= Len(playlist.new_playlist)
    /\ playlist.c > Len(playlist.new_playlist[playlist.g].channels)
    /\ playlist' = [playlist EXCEPT !.g = @ + 1, !.c = 1]
    /\ UNCHANGED <<cfg, tree, stored, dup, ninserts, file, ser, handle, res,
                   xmltv, item, json>>

WriteDone ==
    /\ playlist.pc = "loop"
    /\ playlist.g > Len(playlist.new_playlist)
    /\ playlist' = [playlist EXCEPT !.pc = "done", !.result = "Ok"]
    /\ UNCHANGED <<cfg, tree, stored, dup, ninserts, file, ser, handle, res,
                   xmltv, item, json>>

NextWrite ==
    \/ RenamePlaylist
    \/ SortPlaylist
    \/ OpenOutput
    \/ WriteChannel
    \/ NextGroup
    \/ WriteDone

(***************************************************************************)
(* The playlists of up to MaxGroups groups with titles that differ in      *)
(* case, in length and in characters no file name keeps, and the targets:  *)
(* with and without rename rules, sort, options, either kind of output and *)
(* a filter on a field the rules change.                                   *)
(***************************************************************************)
MaxGroups == 3

PlaylistItemOf(group, name, title, url) ==
    [header |-> [group |-> group, name |-> name, title |-> title], url |-> url]

PlaylistGroupOf(title, channels) ==
    [title |-> title,
     channels |-> [i \in 1..Len(channels) |->
                      PlaylistItemOf(title, channels[i][1], channels[i][2],
                                     channels[i][3])]]

GroupSet ==
    { PlaylistGroupOf(<<"B">>, << <<<<"a">>, <<"a", " ", "7">>, <<"u", "1">>>>,
                                  <<<<"b">>, <<"b", "!">>, <<"u", "2">>>> >>),
      PlaylistGroupOf(<<"a">>, << <<<<"b">>, <<"b">>, <<"u", "3">>>> >>),
      PlaylistGroupOf(<<"a", "!">>, << <<<<"a", "b">>, <<"b">>, <<"u", "4">>>> >>),
      PlaylistGroupOf(<<"a", "b">>, <<>>) }

RenameRule(field, re, new_name) == [field |-> field, re |-> re, new_name |-> new_name]

RenameLists ==
    { <<>>,
      << RenameRule("Name", <<"a">>, <<"b">>) >>,
      << RenameRule("Group", <<"a">>, <<"B", "a">>),
         RenameRule("Title", <<"b">>, <<"7">>) >>,
      << RenameRule("Name", <<"b">>, <<>>), RenameRule("Url", <<"u">>, <<"v">>) >> }

Filters ==
    { [field |-> "Name", re |-> <<"a">>, matches |-> TRUE],
      [field |-> "Name", re |-> <<"b">>, matches |-> FALSE],
      [field |-> "Group", re |-> <<"B">>, matches |-> TRUE] }

StrmOptions ==
    { None,
      Some([underscore_whitespace |-> TRUE, cleanup |-> FALSE]),
      Some([underscore_whitespace |-> FALSE, cleanup |-> TRUE]) }

\* a file of an earlier run below the root of the target
StaleFiles ==
    [dirs |-> { <<WorkingDir, "out">>, <<WorkingDir, "out", <<"7">>>> },
     files |-> { [path |-> <<WorkingDir, "out", <<"7">>, <<"7", ".strm">>>>,
                  content |-> <<"u", "0">>] }]

WriteM3u(p, target, fs) ==
    [pc |-> "write_m3u", playlist |-> p, target |-> target, new_playlist |-> <<>>,
     fs |-> fs, g |-> 1, c |-> 1, emitted |-> <<>>, result |-> "none"]

InitWrite ==
    /\ InitNoTree
    /\ xmltv = Idle
    /\ item = Idle
    /\ json = Idle
    /\ \E p \in SeqsUpTo(GroupSet, MaxGroups), rename \in RenameLists,
          sort \in {None, Some([order |-> "Asc"])},
          output \in {None, Some("M3u"), Some("Strm")},
          options \in StrmOptions, filter \in Filters,
          fs \in {NoFiles, StaleFiles} :
           playlist = WriteM3u(p, [filename |-> "out", rename |-> rename,
                                   sort |-> sort, output |-> output,
                                   options |-> options, filter |-> filter],
                               IF IsStrm([output |-> output]) THEN fs ELSE NoFiles)

SpecWrite == InitWrite /\ [][NextWrite]_vars

\* sort_playlist on its own, behind rename_playlist
NextSort == RenamePlaylist \/ SortPlaylist

InitSort ==
    /\ InitNoTree
    /\ xmltv = Idle
    /\ item = Idle
    /\ json = Idle
    /\ \E p \in SeqsUpTo(GroupSet, MaxGroups), rename \in RenameLists,
          sort \in {None, Some([order |-> "Asc"]), Some([order |-> "Desc"])} :
           playlist = WriteM3u(p, [filename |-> "out", rename |-> rename,
                                   sort |-> sort, output |-> Some("M3u"),
                                   options |-> None, filter |-> CHOOSE f \in Filters : TRUE],
                               NoFiles)

SpecSort == InitSort /\ [][NextSort]_vars

(***************************************************************************)
(* exec_rename on its own, and again on its result: playlist = [pc, pli,   *)
(* rename, first, second] over the lists of up to MaxRules rules: rules    *)
(* that feed one another, a pattern that is found again where two          *)
(* replacements meet, a pattern that matches its own replacement, and a    *)
(* rule on the url.                                                        *)
(***************************************************************************)
MaxRules == 2

ExecRename ==
    /\ playlist.pc = "exec_rename"
    /\ playlist' = [playlist EXCEPT
                        !.pc = "renamed",
                        !.first = exec_rename(playlist.pli, playlist.rename)]
    /\ UNCHANGED <<cfg, tree, stored, dup, ninserts, file, ser, handle, res,
                   xmltv, item, json>>

ExecRenameAgain ==
    /\ playlist.pc = "renamed"
    /\ playlist.first # None
    /\ playlist' = [playlist EXCEPT
                        !.pc = "renamed_twice",
                        !.second = exec_rename(playlist.first[1], playlist.rename)]
    /\ UNCHANGED <<cfg, tree, stored, dup, ninserts, file, ser, handle, res,
                   xmltv, item, json>>

NextRename == ExecRename \/ ExecRenameAgain

RuleSet ==
    { RenameRule("Name", <<"a">>, <<"b">>),
      RenameRule("Name", <<"b">>, <<"7">>),
      RenameRule("Name", <<"a", "a">>, <<"a">>),
      RenameRule("Title", <<"b">>, <<>>),
      RenameRule("Group", <<"a">>, <<"a", "b">>),
      RenameRule("Url", <<"a">>, <<"b">>) }

RenamedItems ==
    { PlaylistItemOf(<<"a">>, name, title, <<"a">>) :
          name \in { <<>>, <<"a">>, <<"a", "b">>, <<"a", "a", "a">> },
          title \in { <<"b">>, <<"a", "b">> } }

InitRename ==
    /\ InitNoTree
    /\ xmltv = Idle
    /\ item = Idle
    /\ json = Idle
    /\ \E pli \in RenamedItems, rename \in SeqsUpTo(RuleSet, MaxRules) :
           playlist = [pc |-> "exec_rename", pli |-> pli, rename |-> rename,
                       first |-> None, second |-> None]

SpecRename == InitRename /\ [][NextRename]_vars

(***************************************************************************)
(* utils/json_utils.rs: a file as a sequence of bytes, of which            *)
(*   "[" "]" ","  the bytes of the array,                                  *)
(*   " "          a whitespace byte,                                       *)
(*   "o" "p"      a whole JSON object, one that passes the filter and one  *)
(*                that does not: a value that ends at its own closing      *)
(*                byte, so that the deserializer reads no byte after it,   *)
(*   "x"          an element that is malformed at its last byte.           *)
(* A reader is the file and the position of its next byte; a read at the   *)
(* end of the file fails and leaves the reader at the end.                 *)
(***************************************************************************)
skip_ws(bytes, pos) ==
    LET rest == { j \in pos..Len(bytes) : bytes[j] # " " }
    IN  IF rest = {} THEN Len(bytes) + 1
        ELSE CHOOSE j \in rest : \A k \in rest : j <= k

read_skipping_ws(bytes, pos) ==
    LET j == skip_ws(bytes, pos)
    IN  IF j > Len(bytes)
        THEN [ok |-> FALSE, byte |-> "", pos |-> Len(bytes) + 1]
        ELSE [ok |-> TRUE, byte |-> bytes[j], pos |-> j + 1]

Yielded(kind, value, pos) == [kind |-> kind, value |-> value, pos |-> pos]

deserialize_single(bytes, pos) ==
    LET j == skip_ws(bytes, pos)
    IN  IF j > Len(bytes) THEN Yielded("Err", "premature EOF", Len(bytes) + 1)
        ELSE IF bytes[j] \in {"o", "p"} THEN Yielded("Some", bytes[j], j + 1)
        ELSE Yielded("Err", "invalid", j + 1)

yield_next_obj(bytes, pos, at_start) ==
    LET first == read_skipping_ws(bytes, pos)
        peek == read_skipping_ws(bytes, first.pos)
    IN  IF ~first.ok THEN Yielded("Err", "UnexpectedEof", first.pos)
        ELSE IF at_start
        THEN CASE first.byte = "," -> deserialize_single(bytes, first.pos)
               [] first.byte = "]" -> Yielded("None", "", first.pos)
               [] OTHER -> Yielded("Err", ", or ] not found", first.pos)
        ELSE IF first.byte # "[" THEN Yielded("Err", "[ not found", first.pos)
        ELSE IF ~peek.ok THEN Yielded("Err", "UnexpectedEof", peek.pos)
        ELSE IF peek.byte = "]" THEN Yielded("None", "", peek.pos)
        ELSE deserialize_single(bytes, peek.pos - 1)

(***************************************************************************)
(* json_filter_file: json = [pc, file, pos, at_start, entry, filtered].    *)
(* One step opens the file, one calls the iterator of json_iter_array, one *)
(* is flatten and the body of the loop on what the iterator gave: an error *)
(* is dropped and the iterator is called again.                            *)
(***************************************************************************)
MaxBytes == 4

NoEntry == Yielded("", "", 0)

JsonFilterFile ==
    /\ json.pc = "json_filter_file"
    /\ json' = [json EXCEPT !.pc = IF json.file = None THEN "done" ELSE "next"]
    /\ UNCHANGED <<cfg, tree, stored, dup, ninserts, file, ser, handle, res,
                   xmltv, item, playlist>>

json_iter_array ==
    /\ json.pc = "next"
    /\ LET r == yield_next_obj(json.file[1], json.pos, json.at_start)
       IN  json' = [json EXCEPT !.pc = "entry", !.entry = r, !.pos = r.pos,
                                !.at_start = TRUE]
    /\ UNCHANGED <<cfg, tree, stored, dup, ninserts, file, ser, handle, res,
                   xmltv, item, playlist>>

FilterEntry ==
    /\ json.pc = "entry"
    /\ json' = [json EXCEPT
                    !.pc = IF json.entry.kind = "None" THEN "done" ELSE "next",
                    !.entry = NoEntry,
                    !.filtered = IF json.entry.kind = "Some"
                                    /\ json.entry.value = "o"
                                 THEN Append(@, json.entry.value) ELSE @]
    /\ UNCHANGED <<cfg, tree, stored, dup, ninserts, file, ser, handle, res,
                   xmltv, item, playlist>>

NextJson == JsonFilterFile \/ json_iter_array \/ FilterEntry

JsonBytes == {"]", ",", " ", "o", "p", "x"}

JsonFiles ==
    { head \o body : head \in { <<>>, <<"[">>, <<" ", "[">> },
                     body \in SeqsUpTo(JsonBytes, MaxBytes) }

InitJson ==
    /\ InitNoTree
    /\ xmltv = Idle
    /\ item = Idle
    /\ playlist = Idle
    /\ \E f \in {None} \cup { Some(b) : b \in JsonFiles } :
           json = [pc |-> "json_filter_file", file |-> f, pos |-> 1,
                   at_start |-> FALSE, entry |-> NoEntry, filtered |-> <<>>]

SpecJson == InitJson /\ [][NextJson]_vars

(* The program is one thread that takes its next step whenever it has one. *)
SpecJsonFair == SpecJson /\ WF_vars(NextJson)

(***************************************************************************)
(* Vocabulary of the properties.                                           *)
(***************************************************************************)
\* every node of the subtree rooted at node
RECURSIVE NodesOf(_)
NodesOf(node) ==
    {node} \cup UNION { NodesOf(node.children[i]) : i \in 1..Len(node.children) }

\* the keys stored in the leaves of the subtree rooted at node
RECURSIVE LeafKeysOf(_)
LeafKeysOf(node) ==
    IF node.is_leaf THEN { node.keys[i] : i \in 1..Len(node.keys) }
    ELSE UNION { LeafKeysOf(node.children[i]) : i \in 1..Len(node.children) }

RECURSIVE HeightOf(_)
HeightOf(node) ==
    IF node.children = <<>> THEN 1 ELSE 1 + HeightOf(node.children[1])

\* the node without the values of its leaves
RECURSIVE KeysOnly(_)
KeysOnly(node) ==
    [is_leaf |-> node.is_leaf, keys |-> node.keys,
     children |-> [i \in 1..Len(node.children) |-> KeysOnly(node.children[i])]]

StrictlyIncreasing(s) == \A i \in 1..(Len(s) - 1) : s[i] < s[i + 1]

\* position (child indices from the root) of the leaf that the separators
\* assign to key: at each internal node the child after the last separator
\* that is <= key
RECURSIVE LeafPathOf(_, _)
LeafPathOf(node, key) ==
    IF node.is_leaf THEN <<>>
    ELSE LET i == 1 + Cardinality({ j \in 1..Len(node.keys) : node.keys[j] <= key })
         IN  <<i>> \o LeafPathOf(node.children[i], key)

RECURSIVE NodeAt(_, _)
NodeAt(node, path) ==
    IF path = <<>> THEN node ELSE NodeAt(node.children[Head(path)], Tail(path))

\* node with the values of the node at path replaced
RECURSIVE WithValuesAt(_, _, _)
WithValuesAt(node, path, values) ==
    IF path = <<>> THEN [node EXCEPT !.values = values]
    ELSE [node EXCEPT !.children[Head(path)] =
                          WithValuesAt(node.children[Head(path)], Tail(path), values)]

\* 1-based position of key in the keys of a node, 0 when absent
IndexOfKey(node, key) ==
    IF \E i \in 1..Len(node.keys) : node.keys[i] = key
    THEN CHOOSE i \in 1..Len(node.keys) : node.keys[i] = key
    ELSE 0

SerializedFresh == ser.status = "ok" /\ ~ser.prior.exists

(***************************************************************************)
(* C1: after inserts with pairwise distinct keys, BPlusTree::query returns *)
(* the value inserted with every inserted key and None for every other     *)
(* key; after serialize into a new file, BPlusTreeQuery::query returns     *)
(* Ok(Some(that value)) for every inserted key and Ok(None) for every      *)
(* other key, and so does every query made through the handle.             *)
(***************************************************************************)
C1_QueryReturnsInserted ==
    ~dup =>
        /\ \A k \in Keys : BPlusTree_query(tree, k) = stored[k]
        /\ SerializedFresh =>
              \A k \in Keys :
                  LET r == BPlusTreeQuery_query(cfg, file, k)
                  IN  r.status = "ok" /\ r.value = stored[k]
        /\ (SerializedFresh /\ res.op = "query") =>
              (res.status = "ok" /\ res.value = stored[res.key])

\* a tree whose root was split as an internal node was written to a new
\* file and a stored key was found through the handle
C1_Witness ==
    /\ ~dup /\ HeightOf(tree.root) >= 3 /\ SerializedFresh
    /\ res.op = "query" /\ res.value # None

(***************************************************************************)
(* C2: the file written by serialize into a file that did not exist has a  *)
(* length that is a multiple of 4096, and deserialize of it succeeds with  *)
(* a tree that answers every query as the serialized tree does.            *)
(***************************************************************************)
C2_RoundTrip ==
    SerializedFresh =>
        /\ file.len % BLOCK_SIZE = 0
        /\ LET d == BPlusTree_deserialize(cfg, file)
           IN  /\ d.status = "ok"
               /\ \A k \in Keys : BPlusTree_query(d.tree, k) = BPlusTree_query(tree, k)
        /\ res.op = "deserialize" =>
              /\ res.status = "ok"
              /\ \A k \in Keys : BPlusTree_query(res.tree, k) = BPlusTree_query(tree, k)

\* a tree with internal nodes and a key inserted twice was written and
\* loaded again
C2_Witness ==
    /\ SerializedFresh /\ dup /\ ~tree.root.is_leaf
    /\ res.op = "deserialize" /\ res.status = "ok"

(***************************************************************************)
(* C3: insert(k, v) with a key k that was inserted before changes the keys *)
(* of no node and splits nothing; it inserts v into the values of the leaf *)
(* that holds k at the index of k, the previous values moving one position *)
(* later, and query(k) then returns v.                                     *)
(***************************************************************************)
InsertOfStoredKey(k, v) ==
    (Insert(k, v) /\ stored[k] # None) =>
        LET path == LeafPathOf(tree.root, k)
            leaf == NodeAt(tree.root, path)
            i == IndexOfKey(leaf, k)
        IN  /\ i > 0
            /\ KeysOnly(tree'.root) = KeysOnly(tree.root)
            /\ tree'.root = WithValuesAt(tree.root, path,
                                SubSeq(leaf.values, 1, i - 1) \o <<v>>
                                    \o SubSeq(leaf.values, i, Len(leaf.values)))
            /\ BPlusTree_query(tree', k) = Some(v)

C3_ReinsertKeepsKeys ==
    [][\A k \in Keys, v \in Values : InsertOfStoredKey(k, v)]_vars

\* a key was inserted again into a leaf below an internal root, and the
\* leaf now holds more values than keys
C3_Witness ==
    /\ dup /\ ~tree.root.is_leaf
    /\ \E n \in NodesOf(tree.root) : n.is_leaf /\ Len(n.values) > Len(n.keys)

(***************************************************************************)
(* C4: after any sequence of inserts every node has strictly increasing    *)
(* keys, and every internal node has at least one key and one child more   *)
(* than it has keys.                                                       *)
(***************************************************************************)
C4_NodesWellFormed ==
    \A n \in NodesOf(tree.root) :
        /\ StrictlyIncreasing(n.keys)
        /\ ~n.is_leaf => (Len(n.keys) >= 1 /\ Len(n.children) = Len(n.keys) + 1)

\* an internal node was split: the root has an internal child
C4_Witness ==
    /\ ~tree.root.is_leaf
    /\ \E i \in 1..Len(tree.root.children) : ~tree.root.children[i].is_leaf

(***************************************************************************)
(* C5: after inserts with distinct keys, every key in a leaf of the        *)
(* subtree of child i of an internal node N is at least the separator left *)
(* of that child and less than the separator right of it.                  *)
(***************************************************************************)
C5_SeparatorsBoundSubtrees ==
    ~dup =>
        \A n \in NodesOf(tree.root) :
            \A i \in 1..Len(n.children) :
                \A k \in LeafKeysOf(n.children[i]) :
                    /\ i > 1 => k >= n.keys[i - 1]
                    /\ i <= Len(n.keys) => k < n.keys[i]

(***************************************************************************)
(* C6: every node that serialize writes fits in its own 4096-byte block:   *)
(* no copy into the buffer is out of range (serialize does not panic) and  *)
(* every write of the log, the pointer vectors included, ends inside the   *)
(* block of the node it belongs to; also for V = String.                   *)
(***************************************************************************)
WriteInsideBlock(w) ==
    w.offset + w.len <= ((w.offset \div BLOCK_SIZE) + 1) * BLOCK_SIZE

C6_PayloadFitsBlock ==
    ser.status # "none" =>
        /\ ser.status = "ok"
        /\ \A i \in 1..Len(ser.writes) : WriteInsideBlock(ser.writes[i])

(***************************************************************************)
(* C7: whatever the destination file was before, a successful serialize    *)
(* returns the length of the file after the call, which is 4096 times the  *)
(* number of nodes of the tree.                                            *)
(***************************************************************************)
RECURSIVE PreOrder(_, _)
RECURSIVE PreOrderFrom(_, _, _)
\* the positions of the nodes of the subtree at path, in pre-order
PreOrder(node, path) == <<path>> \o PreOrderFrom(node, path, 1)
PreOrderFrom(node, path, i) ==
    IF i > Len(node.children) THEN <<>>
    ELSE PreOrder(node.children[i], Append(path, i)) \o PreOrderFrom(node, path, i + 1)

NodeCount(node) == Len(PreOrder(node, <<>>))

C7_ReturnIsFileLength ==
    ser.status = "ok" =>
        /\ ser.ret = file.len
        /\ ser.ret = BLOCK_SIZE * NodeCount(tree.root)

(***************************************************************************)
(* C8: serialize writes the blocks of the nodes in pre-order at the        *)
(* offsets 0, 4096, 8192, ...; the block of an internal node is written    *)
(* before every write of its descendants and its pointer vector after all  *)
(* of them; the pointer vector holds the offsets at which the blocks of    *)
(* its children were written, in child order; and no write between the two *)
(* writes of an internal node touches the block of that node.              *)
(***************************************************************************)
IsProperPrefix(p, q) == Len(p) < Len(q) /\ SubSeq(q, 1, Len(p)) = p

BlockWrites(W) == { i \in 1..Len(W) : W[i].kind = "block" }
PtrWrites(W) == { i \in 1..Len(W) : W[i].kind = "ptr" }

\* the sequence of the block writes of the log W
RECURSIVE OnlyBlocks(_)
OnlyBlocks(W) ==
    IF W = <<>> THEN <<>>
    ELSE IF Head(W).kind = "block" THEN <<Head(W)>> \o OnlyBlocks(Tail(W))
    ELSE OnlyBlocks(Tail(W))

WriteOrderOf(root, W) ==
    LET B == OnlyBlocks(W)
        order == PreOrder(root, <<>>)
    IN  /\ Len(B) = Len(order)
        /\ \A j \in 1..Len(B) :
              B[j].path = order[j] /\ B[j].offset = (j - 1) * BLOCK_SIZE
        /\ \A j \in 1..Len(order) :
              LET p == order[j]
                  n == NodeAt(root, p)
                  b == CHOOSE i \in BlockWrites(W) : W[i].path = p
                  Q == { i \in PtrWrites(W) : W[i].path = p }
              IN  IF n.is_leaf THEN Q = {}
                  ELSE /\ Cardinality(Q) = 1
                       /\ \A q \in Q :
                            /\ b < q
                            /\ \A i \in 1..Len(W) :
                                  IsProperPrefix(p, W[i].path) => (b < i /\ i < q)
                            /\ W[q].penc.count = Len(n.children)
                            /\ Len(W[q].penc.elems) = Len(n.children)
                            /\ \A c \in 1..Len(n.children) :
                                  \E i \in BlockWrites(W) :
                                      /\ W[i].path = Append(p, c)
                                      /\ W[i].offset = W[q].penc.elems[c]
                            /\ \A i \in 1..Len(W) :
                                  (b < i /\ i < q) =>
                                      \/ W[i].offset + W[i].len <= W[b].offset
                                      \/ W[i].offset >= W[b].offset + BLOCK_SIZE

C8_WriteOrder == ser.status = "ok" => WriteOrderOf(tree.root, ser.writes)

\* a tree with an internal node below the root was written
C8_Witness ==
    /\ ser.status = "ok" /\ HeightOf(tree.root) >= 3
    /\ Cardinality(PtrWrites(ser.writes)) >= 3

(***************************************************************************)
(* C9: BPlusTreeQuery::new returns a handle exactly for the files whose    *)
(* length is a positive multiple of 4096; every other file, the empty file *)
(* included, is rejected with an error.                                    *)
(***************************************************************************)
C9_NewRejectsBadLength ==
    handle # "none" =>
        (handle = "ok" <=>
            (file.exists /\ file.len > 0 /\ file.len % BLOCK_SIZE = 0))

(***************************************************************************)
(* C10: deserialize returns Err, neither a panic nor a tree, when the file *)
(* is shorter than a block, when a length prefix of the first block        *)
(* exceeds the bytes that remain in the block, and when the file length is *)
(* not a multiple of 4096.                                                 *)
(***************************************************************************)
PrefixExceedsBlock(b) ==
    \/ 1 + 4 + b.klen > BLOCK_SIZE
    \/ b.flag = 1 /\ 1 + 4 + b.klen + 4 + b.vlen > BLOCK_SIZE
    \/ b.flag # 1 /\ 1 + 4 + b.klen + 4 + b.plen > BLOCK_SIZE

C10_DeserializeReturnsErr ==
    (/\ res.op = "deserialize"
     /\ file.exists
     /\ \/ file.len < BLOCK_SIZE
        \/ file.len % BLOCK_SIZE # 0
        \/ file.len >= BLOCK_SIZE /\ PrefixExceedsBlock(file.blocks[1]))
    => res.status = "err"

(***************************************************************************)
(* Vocabulary of the timestamp properties: a calendar date as a count of   *)
(* days and back, by the era arithmetic of the proleptic Gregorian         *)
(* calendar.                                                               *)
(***************************************************************************)
DaysFromCivil(year, month, day) ==
    LET y == IF month <= 2 THEN year - 1 ELSE year
        era == y \div 400
        yoe == y - era * 400
        mp == IF month > 2 THEN month - 3 ELSE month + 9
        doy == (153 * mp + 2) \div 5 + day - 1
        doe == yoe * 365 + yoe \div 4 - yoe \div 100 + doy
    IN  era * 146097 + doe - 719468

CivilFromDays(days) ==
    LET z == days + 719468
        era == z \div 146097
        doe == z - era * 146097
        yoe == (doe - doe \div 1460 + doe \div 36524 - doe \div 146096) \div 365
        doy == doe - (365 * yoe + yoe \div 4 - yoe \div 100)
        mp == (5 * doy + 2) \div 153
        day == doy - (153 * mp + 2) \div 5 + 1
        month == IF mp < 10 THEN mp + 3 ELSE mp - 9
    IN  [year |-> IF month <= 2 THEN yoe + era * 400 + 1 ELSE yoe + era * 400,
         month |-> month, day |-> day]

\* the number written in the characters from..to of s
FieldOf(s, from, to) == DigitsValue(SubSeq(s, from, to))

\* l is a time in the layout YYYYMMDDhhmmss
ValidLocal(l) ==
    /\ Len(l) = 14
    /\ \A i \in 1..14 : is_ascii_digit(l[i])
    /\ FieldOf(l, 5, 6) \in 1..12
    /\ FieldOf(l, 7, 8) \in 1..31
    /\ DaysFromCivil(FieldOf(l, 1, 4), FieldOf(l, 5, 6), FieldOf(l, 7, 8)) + 1
           = DaysFromCivil(FieldOf(l, 1, 4), FieldOf(l, 5, 6), FieldOf(l, 7, 8) + 1)
    /\ CivilFromDays(DaysFromCivil(FieldOf(l, 1, 4), FieldOf(l, 5, 6),
                                   FieldOf(l, 7, 8))).month = FieldOf(l, 5, 6)
    /\ FieldOf(l, 9, 10) \in 0..23
    /\ FieldOf(l, 11, 12) \in 0..59
    /\ FieldOf(l, 13, 14) \in 0..59

\* the valid local time l moved by a number of minutes, in the same layout
Shifted(l, minutes) ==
    LET total == DaysFromCivil(FieldOf(l, 1, 4), FieldOf(l, 5, 6), FieldOf(l, 7, 8))
                     * 1440 + FieldOf(l, 9, 10) * 60 + FieldOf(l, 11, 12) + minutes
        date == CivilFromDays(total \div 1440)
    IN  Local(date.year, date.month, date.day, (total % 1440) \div 60,
              total % 60, FieldOf(l, 13, 14))

\* t is l, one space and z, and neither l nor z holds a space
SplitsInTwo(t, l, z) ==
    /\ t = l \o <<" ">> \o z
    /\ \A i \in 1..Len(l) : l[i] # " "
    /\ \A i \in 1..Len(z) : z[i] # " "

Prefixes(s) == { SubSeq(s, 1, n) : n \in 0..Len(s) }
Suffixes(s) == { SubSeq(s, n, Len(s)) : n \in 1..(Len(s) + 1) }

\* what C12 says time_correct(t, o) is
TimeCorrected(t, o) ==
    IF \E l \in Prefixes(t), z \in Suffixes(t) : SplitsInTwo(t, l, z) /\ ValidLocal(l)
    THEN LET l == CHOOSE l \in Prefixes(t) :
                      \E z \in Suffixes(t) : SplitsInTwo(t, l, z)
         IN  Shifted(l, o) \o SubSeq(t, Len(l) + 1, Len(t))
    ELSE t

\* C12: time_correct(T, O) is format(parse(L) + O minutes), a space and Z
\* when T is a valid local time L, one space and a token Z, and is T itself
\* when T does not split into exactly two parts or L is not a valid
\* YYYYMMDDhhmmss time.
C12_TimeCorrect ==
    xmltv.pc = "time_corrected"
        => xmltv.result = TimeCorrected(xmltv.date_time, xmltv.correction)

(***************************************************************************)
(* Vocabulary of the time shift properties.                                *)
(***************************************************************************)
\* s without its leading signs
Unsigned(s) ==
    LET n == CHOOSE n \in 0..Len(s) :
                 /\ \A i \in 1..n : s[i] \in {"+", "-"}
                 /\ n = Len(s) \/ s[n + 1] \notin {"+", "-"}
    IN  SubSeq(s, n + 1, Len(s))

Colons(s) == { i \in 1..Len(s) : s[i] = ":" }

FirstColon(s) == CHOOSE i \in Colons(s) : \A j \in Colons(s) : i <= j

\* the hours and the minutes component of an unsigned time shift
HoursOf(s) == IF Colons(s) = {} THEN s ELSE SubSeq(s, 1, FirstColon(s) - 1)

MinutesOf(s) ==
    IF Colons(s) = {} THEN <<>>
    ELSE LET rest == SubSeq(s, FirstColon(s) + 1, Len(s))
         IN  HoursOf(rest)

\* the number a component stands for: 0 when it is empty or not a number
IsNumber(c) ==
    \E sign \in {<<>>, <<"+">>, <<"-">>} :
        /\ Len(c) > Len(sign)
        /\ SubSeq(c, 1, Len(sign)) = sign
        /\ \A i \in (Len(sign) + 1)..Len(c) : is_ascii_digit(c[i])

Amount(c) ==
    IF ~IsNumber(c) THEN 0
    ELSE IF c[1] = "-" THEN 0 - DigitsValue(Tail(c))
    ELSE IF c[1] = "+" THEN DigitsValue(Tail(c))
    ELSE DigitsValue(c)

\* hours * 60 + minutes is a number of minutes an i32 holds
TotalFits(hours, minutes) ==
    /\ hours <= I32_MAX \div 60 - 1
    /\ hours >= 0 - (I32_MAX \div 60 - 1)
    /\ minutes < 60 * 60
    /\ minutes > 0 - 60 * 60

\* what C13 says parse_timeshift returns for the configured time shift
ClaimedShift(time_shift) ==
    IF time_shift = None THEN None
    ELSE LET total == Amount(HoursOf(Unsigned(time_shift[1]))) * 60
                          + Amount(MinutesOf(Unsigned(time_shift[1])))
             sign == IF time_shift[1] # <<>> /\ time_shift[1][1] = "-"
                     THEN 0 - 1 ELSE 1
         IN  IF total = 0 THEN None ELSE Some(sign * total)

ServedUntransformed(x) ==
    x.pc = "done" /\ x.response[1].status = 200 /\ x.response[1].body[1] = "file"

\* C13: parse_timeshift returns Some(sign * (hours * 60 + minutes)), the
\* sign -1 exactly when the string starts with "-", an empty or unparsable
\* component counting as 0; it returns None exactly when no time shift is
\* configured or hours * 60 + minutes is zero, and only then is the EPG
\* file served untransformed.
C13_ParseTimeshift ==
    xmltv.pc # "request" =>
        /\ xmltv.pc # "panic"
        /\ xmltv.request.user_target[1].epg_timeshift # None =>
               TotalFits(Amount(HoursOf(Unsigned(
                             xmltv.request.user_target[1].epg_timeshift[1]))),
                         Amount(MinutesOf(Unsigned(
                             xmltv.request.user_target[1].epg_timeshift[1]))))
        /\ xmltv.shift = ClaimedShift(xmltv.request.user_target[1].epg_timeshift)
        /\ ServedUntransformed(xmltv) <=> xmltv.shift = None

\* C13, examples: "-2:30" gives -150, ":30" gives 30, "+2" gives 120 and
\* "0" gives None.
C13_Examples ==
    xmltv.pc # "request" =>
        LET t == xmltv.request.user_target[1].epg_timeshift
        IN  /\ t = Some(<<"-", "2", ":", "3", "0">>) => xmltv.shift = Some(0 - 150)
            /\ t = Some(<<":", "3", "0">>) => xmltv.shift = Some(30)
            /\ t = Some(<<"+", "2">>) => xmltv.shift = Some(120)
            /\ t = Some(<<"0">>) => xmltv.shift = None

(***************************************************************************)
(* Vocabulary of the EPG lookup properties.                                *)
(***************************************************************************)
\* output i of the request's target has an EPG: it is an M3u or an Xtream
\* output whose storage path resolves
HasEpgOutput(request, i) ==
    \/ /\ request.user_target[1].output[i] = "M3u"
       /\ request.config.m3u_storage # None
    \/ /\ request.user_target[1].output[i] = "Xtream"
       /\ request.config.xtream_storage # None

EpgPathOfOutput(request, i) ==
    IF request.user_target[1].output[i] = "M3u"
    THEN <<request.config.m3u_storage[1], "m3u", "epg">>
    ELSE <<request.config.xtream_storage[1], "xtream", "epg">>

\* the first output with an EPG has no file at its EPG path
EpgFileAbsent(request) ==
    \E i \in 1..Len(request.user_target[1].output) :
        /\ HasEpgOutput(request, i)
        /\ \A j \in 1..(i - 1) : ~HasEpgOutput(request, j)
        /\ request.fs[EpgPathOfOutput(request, i)].kind = "absent"

\* C14: a request that resolves to a user and a target with an M3u or
\* Xtream output whose storage path resolves gets HTTP 204 No Content when
\* no EPG file exists at the EPG path of that output.
C14_AbsentEpgFileGives204 ==
    (/\ xmltv.pc = "done"
     /\ xmltv.request.user_target # None
     /\ EpgFileAbsent(xmltv.request))
        => xmltv.response[1].status = 204

(***************************************************************************)
(* Vocabulary of the rewriter properties.                                  *)
(***************************************************************************)
IsProgrammeStart(event) == event.kind = "Start" /\ event.name = "programme"

\* the attribute is one the reader accepts and, for start and stop, decodes
WellFormedAttr(attr) ==
    /\ attr.ok
    /\ attr.key \in {"start", "stop"} => decode_and_unescape_value(attr.value) # None

\* every event of the file parses, and every attribute of its programme
\* start elements is well formed
WellFormedEvents(events) ==
    \A i \in 1..Len(events) :
        /\ events[i].kind # "Err"
        /\ IsProgrammeStart(events[i]) =>
               \A j \in 1..Len(events[i].attributes) :
                   WellFormedAttr(events[i].attributes[j])

\* the value a reader of the output finds for an attribute written as
\* key="value": the text up to the closing double quote
ReadBack(value) ==
    IF \E i \in 1..Len(value) : value[i] = "\""
    THEN SubSeq(value, 1,
                (CHOOSE i \in 1..Len(value) :
                     value[i] = "\"" /\ \A j \in 1..(i - 1) : value[j] # "\"") - 1)
    ELSE value

\* the output attribute is the input attribute with the value of start and
\* stop time-corrected
AttrRewritten(in, out, duration) ==
    /\ out.key = in.key
    /\ IF in.key \in {"start", "stop"}
       THEN decode_and_unescape_value(ReadBack(out.value))
                = Some(time_correct(decode_and_unescape_value(in.value)[1], duration))
       ELSE ReadBack(out.value) = in.value

\* the output event is the input event forwarded, a programme start element
\* with its attributes rewritten in their order
EventRewritten(in, out, duration) ==
    IF IsProgrammeStart(in)
    THEN /\ out.kind = "Start"
         /\ out.name = in.name
         /\ Len(out.attributes) = Len(in.attributes)
         /\ \A j \in 1..Len(in.attributes) :
                AttrRewritten(in.attributes[j], out.attributes[j], duration)
    ELSE out = in

\* C11: for an XMLTV input whose events all parse, the rewriter writes one
\* output event per input event before Eof, in input order; a programme
\* start element with well-formed attributes keeps its attribute keys in
\* their order, with the values of start and stop replaced by time_correct
\* and every other value unchanged; every other event is forwarded
\* unchanged.
C11_RewriterForwardsEvents ==
    (xmltv.pc \in {"rewrite", "done", "panic"}
     /\ WellFormedEvents(xmltv.request.fs[<<"xt_dir", "xtream", "epg">>].events))
        => /\ xmltv.pc # "panic"
           /\ Len(xmltv.rewriter.out) = xmltv.rewriter.pos
           /\ xmltv.pc = "done" => xmltv.rewriter.pos = Len(xmltv.rewriter.events)
           /\ \A i \in 1..Len(xmltv.rewriter.out) :
                  EventRewritten(xmltv.rewriter.events[i], xmltv.rewriter.out[i],
                                 xmltv.rewriter.duration)

\* the attribute is one the reader rejects or cannot decode
FailingAttr(attr) == ~WellFormedAttr(attr)

\* C15: when an attribute of a programme start element fails to parse or to
\* decode, the rewriter keeps running: it emits that attribute unchanged in
\* the output element and processes the remaining attributes and events; it
\* neither drops the attribute nor panics.
C15_FailingAttributeKept ==
    xmltv.pc \in {"rewrite", "done", "panic"} =>
        /\ xmltv.pc # "panic"
        /\ Len(xmltv.rewriter.out) = xmltv.rewriter.pos
        /\ \A i \in 1..Len(xmltv.rewriter.out) :
               IsProgrammeStart(xmltv.rewriter.events[i]) =>
                   /\ Len(xmltv.rewriter.out[i].attributes)
                          = Len(xmltv.rewriter.events[i].attributes)
                   /\ \A j \in 1..Len(xmltv.rewriter.events[i].attributes) :
                          FailingAttr(xmltv.rewriter.events[i].attributes[j]) =>
                              /\ xmltv.rewriter.out[i].attributes[j].key
                                     = xmltv.rewriter.events[i].attributes[j].key
                              /\ xmltv.rewriter.out[i].attributes[j].value
                                     = xmltv.rewriter.events[i].attributes[j].value


(***************************************************************************)
(* Playlist items                                                          *)
(***************************************************************************)
\* C16: in every state an item reaches by default, on_load, gen_uuid,
\* set_field and get_provider_id, in any order, get_uuid() is
\* hash_string(url) of the url the item has then.
C16_UuidIsHashOfUrl ==
    item.pc = "item" => get_uuid(item.header) = hash_string(item.header.url)

\* the cluster the agreement gives an item type
Agreement(item_type) ==
    CASE item_type \in {"Live", "LiveHls", "LiveUnknown", "Catchup"} -> "Live"
      [] item_type = "Video" -> "Video"
      [] item_type \in {"Series", "SeriesInfo", "SeriesEpisode"} -> "Series"

\* C17: converting an item type to a cluster yields the cluster of the
\* agreement (Live for Live, LiveHls, LiveUnknown and Catchup, Video for
\* Video, Series for Series, SeriesInfo and SeriesEpisode), and converting a
\* cluster to an item type and back yields the cluster.
C17_ConversionsAgree ==
    item.pc = "item" =>
        /\ item.ret.op = "XtreamCluster::try_from" =>
               item.ret.result = Ok(Agreement(item.ret.arg))
        /\ item.ret.op = "PlaylistItemType::from" =>
               XtreamCluster_try_from(item.ret.name) = Ok(item.ret.arg)

Accessible == AccessorProps \cup {"epg_channel_id", "epg_id"}

\* the field of the header a field name reads and writes
Slot(field) == IF field = "epg_id" THEN "epg_channel_id" ELSE field

\* what set_field(field, value) has to do to the header and return
FieldSet(before, after, ret, field, value) ==
    IF field \in Accessible
    THEN /\ ret = TRUE
         /\ get_field(after, field) = Some(value)
         /\ get_field(after, "epg_channel_id") = get_field(after, "epg_id")
         /\ Slot(field) = "epg_channel_id" =>
                get_field(after, "epg_channel_id") = Some(value)
         /\ \A other \in DOMAIN before \ {Slot(field)} :
                after[other] = before[other]
    ELSE /\ ret = FALSE
         /\ get_field(before, field) = None
         /\ get_field(after, field) = None
         /\ after = before

\* C18: for the twelve string fields, epg_channel_id and epg_id,
\* set_field(f, v) returns true, get_field(f) then returns Some(v),
\* epg_channel_id and epg_id are one slot, and every other field of the
\* header is unchanged; for every other name set_field returns false,
\* get_field returns None and the header is unchanged.
C18_FieldAccessorFrame ==
    [][item'.ret.op = "set_field" =>
           \A value \in FieldValues(item'.ret.arg) :
               SetField(item'.ret.arg, value) =>
                   FieldSet(item.header, item'.header, item'.ret.flag,
                            item'.ret.arg, value)]_vars

C18_Witness ==
    /\ item.pc = "item"
    /\ item.ret = [Ret("set_field", "epg_id") EXCEPT !.flag = TRUE]
    /\ item.header.epg_channel_id = Some(<<"v">>)
    /\ item.header.name = <<"v">>

\* what get_provider_id has to do to the header and return, byId and byUrl
\* the numbers the id and the url give
ProviderId(before, after, ret, byId, byUrl) ==
    /\ CASE byId # None -> ret = byId /\ after = before
         [] byId = None /\ byUrl # None ->
                /\ ret = byUrl
                /\ after = [before EXCEPT !.id = to_string(byUrl[1])]
         [] OTHER -> ret = None /\ after = before
    /\ get_provider_id(after) = [header |-> after, ret |-> ret]
    /\ ret # None => to_xtream(after).provider_id = ret[1]

\* C19: get_provider_id returns Some(n) and changes nothing when id parses
\* as u32 n; else, when the url gives a number n, it sets id to the decimal
\* string of n and returns Some(n); else it returns None and changes nothing.
\* A second call returns the same and changes nothing, and after Some(n)
\* to_xtream().provider_id is n.
C19_ProviderId ==
    [][item'.ret.op = "get_provider_id" /\ GetProviderId =>
           ProviderId(item.header, item'.header, item'.ret.number,
                      parse_u32(item.header.id),
                      parse_u32(extract_id_from_url(item.header.url)[1]))]_vars

C19_Witness ==
    /\ item.pc = "item"
    /\ item.ret = [Ret("get_provider_id", "") EXCEPT !.number = Some(34)]
    /\ item.header.id = <<"3", "4">>
    /\ item.header.url = <<"h", "/", "3", "4", ".", "t", "s">>
    /\ item.sets = 2

\* the attributes of the header line after group-title, in their order
OptionalAttributes ==
    << <<"tvg-logo", "logo">>, <<"tvg-logo-small", "logo_small">>,
       <<"tvg-chno", "chno">>, <<"parent-code", "parent_code">>,
       <<"audio-track", "audio_track">>, <<"timeshift", "time_shift">>,
       <<"tvg-rec", "rec">> >>

M3uAttribute(name, value) == <<" ", name, "=\"">> \o value \o <<"\"">>

IgnoreLogo(target_options) ==
    target_options # None /\ target_options[1].ignore_logo

Present(self, prop, target_options) ==
    /\ self[prop] # <<>>
    /\ ~(IgnoreLogo(target_options) /\ prop \in {"logo", "logo_small"})

RECURSIVE PresentAttributes(_, _, _)
PresentAttributes(self, target_options, i) ==
    IF i > Len(OptionalAttributes) THEN <<>>
    ELSE (IF Present(self, OptionalAttributes[i][2], target_options)
          THEN M3uAttribute(OptionalAttributes[i][1],
                            self[OptionalAttributes[i][2]])
          ELSE <<>>)
         \o PresentAttributes(self, target_options, i + 1)

\* C20: to_m3u gives a header line of #EXTINF:-1, tvg-id (the
\* epg_channel_id or empty), tvg-name, group-title, then tvg-logo,
\* tvg-logo-small, tvg-chno, parent-code, audio-track, timeshift and tvg-rec
\* in this order, each there exactly when its field is non-empty, the two
\* logos never when ignore_logo is set; then a comma and the title, and one
\* more line with the url.
C20_ToM3u ==
    item.pc = "m3u" =>
        item.line =
            <<"#EXTINF:-1">>
                \o M3uAttribute("tvg-id", unwrap_or(item.self.epg_channel_id, <<>>))
                \o M3uAttribute("tvg-name", item.self.name)
                \o M3uAttribute("group-title", item.self.group)
                \o PresentAttributes(item.self, item.target_options, 1)
                \o <<",">> \o item.self.title
                \o <<"\n">> \o unwrap_or(item.url, item.self.url)

C20_Witness ==
    /\ item.pc = "m3u"
    /\ IgnoreLogo(item.target_options)
    /\ item.self.logo # <<>>
    /\ item.self.chno # <<>>
    /\ item.self.rec = <<>>
    /\ item.self.epg_channel_id = None
    /\ item.line[Len(item.line)] = "u"


(***************************************************************************)
(* The EPG path of a target                                                *)
(***************************************************************************)
\* output i of the request's target has an EPG file
EpgFileExists(request, i) ==
    /\ HasEpgOutput(request, i)
    /\ request.fs[EpgPathOfOutput(request, i)].kind = "file"

\* the handler went on without an EPG path: the answer is the empty document
NoEpgPath(x) ==
    /\ get_epg_path_for_target(x.request.config, x.request.user_target[1],
                               x.request.fs) = None
    /\ x.response = Some(EmptyTv)

\* C28: get_epg_path_for_target returns Some(path) whenever at least one
\* M3u or Xtream output of the target has a storage path that resolves and
\* an EPG file that exists, whatever the order of the outputs and the state
\* of the EPG files of the other outputs; Strm outputs contribute no path.
C28_EpgPathFound ==
    (/\ xmltv.pc # "request"
     /\ xmltv.request.user_target # None
     /\ \E i \in 1..Len(xmltv.request.user_target[1].output) :
            EpgFileExists(xmltv.request, i))
        => ~NoEpgPath(xmltv)


(***************************************************************************)
(* Inserts and the other keys                                              *)
(***************************************************************************)
\* C25: a call insert(k, v), with k stored already or not, changes the
\* result of query(k2) for no key k2 other than k.
C25_InsertKeepsOtherKeys ==
    [][ninserts' = ninserts + 1 =>
           \A k \in Keys, v \in Values :
               Insert(k, v) =>
                   \A k2 \in Keys \ {k} :
                       BPlusTree_query(tree', k2) = BPlusTree_query(tree, k2)]_vars

\* the positions of the leaves of the tree that hold key k
LeavesHolding(root, k) ==
    { p \in { PreOrder(root, <<>>)[i] : i \in 1..NodeCount(root) } :
          /\ NodeAt(root, p).is_leaf
          /\ \E i \in 1..Len(NodeAt(root, p).keys) : NodeAt(root, p).keys[i] = k }

\* the number of entries of all leaves below node, from child i on
RECURSIVE LeafEntries(_)
RECURSIVE LeafEntriesFrom(_, _)
LeafEntries(node) ==
    IF node.is_leaf THEN Len(node.keys) ELSE LeafEntriesFrom(node, 1)
LeafEntriesFrom(node, i) ==
    IF i > Len(node.children) THEN 0
    ELSE LeafEntries(node.children[i]) + LeafEntriesFrom(node, i + 1)

\* the number of entries of the leaf blocks of a file, from block i on
RECURSIVE FileLeafEntries(_, _)
FileLeafEntries(f, i) ==
    IF i > Len(f.blocks) THEN 0
    ELSE (IF f.blocks[i].flag = 1 THEN f.blocks[i].kenc.count ELSE 0)
             + FileLeafEntries(f, i + 1)

\* C26: after inserts with pairwise distinct keys every inserted key is in
\* exactly one leaf reachable from the root, so the leaves of the tree, and
\* of the file serialize writes, hold as many entries as keys were inserted.
C26_KeyInOneLeaf ==
    ~dup =>
        /\ \A k \in Keys :
               stored[k] # None => Cardinality(LeavesHolding(tree.root, k)) = 1
        /\ LeafEntries(tree.root) = ninserts
        /\ SerializedFresh => FileLeafEntries(file, 1) = ninserts


(***************************************************************************)
(* The pipeline of a target                                                *)
(***************************************************************************)
\* a is b or comes before b in the order of the code points
TitleLeq(a, b) ==
    \/ Len(a) <= Len(b) /\ SubSeq(b, 1, Len(a)) = a
    \/ \E i \in 1..Len(a) :
           /\ i <= Len(b)
           /\ SubSeq(a, 1, i - 1) = SubSeq(b, 1, i - 1)
           /\ CodePoint[a[i]] < CodePoint[b[i]]

\* the titles of the groups are in the order of the sort spec
InOrder(groups, sort) ==
    \A i \in 1..(Len(groups) - 1) :
        IF sort[1].order = "Asc"
        THEN TitleLeq(groups[i].title, groups[i + 1].title)
        ELSE TitleLeq(groups[i + 1].title, groups[i].title)

\* out holds the groups of in, each as often as in does
IsPermutation(in, out) ==
    /\ Len(in) = Len(out)
    /\ \E p \in Permutations(1..Len(in)) : \A i \in 1..Len(in) : out[i] = in[p[i]]

\* the channel as the rename rules of the target leave it
RenamedForm(pli, target) == unwrap_or(exec_rename(pli, target.rename), pli)

\* the channels of the groups from group g on, in their order
RECURSIVE ChannelsOf(_, _)
ChannelsOf(groups, g) ==
    IF g > Len(groups) THEN <<>>
    ELSE groups[g].channels \o ChannelsOf(groups, g + 1)

\* the renamed forms that pass the filter, of the channels from i on
RECURSIVE RenamedThatPass(_, _, _)
RenamedThatPass(channels, target, i) ==
    IF i > Len(channels) THEN <<>>
    ELSE (IF is_valid(RenamedForm(channels[i], target), target)
          THEN <<RenamedForm(channels[i], target)>> ELSE <<>>)
         \o RenamedThatPass(channels, target, i + 1)

\* the path of the .strm file of a channel
StrmPath(pli, target) ==
    << WorkingDir, target.filename,
       sanitize_for_filename(pli.header.group,
                             option_of(target, "underscore_whitespace")),
       sanitize_for_filename(pli.header.title,
                             option_of(target, "underscore_whitespace"))
           \o <<".strm">> >>

\* the channel passes the filter, before and after the rename rules
Survives(pli, target) ==
    is_valid(pli, target) /\ is_valid(RenamedForm(pli, target), target)

\* no other channel that passes the filter, before or after the rename
\* rules, has the path of channel i
OwnPath(channels, target, i) ==
    \A j \in 1..Len(channels) :
        (/\ j # i
         /\ \/ is_valid(channels[j], target)
            \/ is_valid(RenamedForm(channels[j], target), target))
            => StrmPath(RenamedForm(channels[j], target), target)
                   # StrmPath(RenamedForm(channels[i], target), target)

\* there is a file at the path of the channel that holds its url
StrmFileOf(fs, pli, target) ==
    \E f \in fs.files :
        f.path = StrmPath(pli, target) /\ f.content = pli.url

StrmFilesWritten(x, channels) ==
    \A i \in 1..Len(channels) :
        (Survives(channels[i], x.target) /\ OwnPath(channels, x.target, i))
            => StrmFileOf(x.fs, RenamedForm(channels[i], x.target), x.target)

\* C21: for a Strm target and any list of rename rules, the empty one
\* included, after write_strm_playlist returned Ok every channel that passes
\* the filter and shares its sanitized group/title path with no other
\* surviving channel has the file <root>/<group>/<title>.strm, whose content
\* is the url of the channel and nothing else.
C21_StrmFilesWritten ==
    (playlist.pc = "done" /\ IsStrm(playlist.target) /\ playlist.result = "Ok")
        => StrmFilesWritten(playlist, ChannelsOf(playlist.new_playlist, 1))

\* C22: within write_m3u the stages run in the order rename, sort, filter:
\* the groups are sorted by their titles after the group-level rename, and
\* a channel is emitted exactly when its renamed form passes the filter.
C22_StagesInOrder ==
    /\ playlist.pc \in {"write", "loop", "done"} =>
           /\ IsPermutation(rename_playlist(playlist.playlist, playlist.target),
                            playlist.new_playlist)
           /\ playlist.target.sort # None =>
                  InOrder(playlist.new_playlist, playlist.target.sort)
    /\ playlist.pc = "done" =>
           playlist.emitted =
               RenamedThatPass(ChannelsOf(playlist.new_playlist, 1),
                               playlist.target, 1)

\* what sort_playlist has to make of the groups
SortedGroups(in, out, sort) ==
    IF sort = None THEN out = in
    ELSE IsPermutation(in, out) /\ InOrder(out, sort)

\* C23: with a sort spec sort_playlist gives a permutation of the groups
\* with titles that are non-decreasing for Asc and non-increasing for Desc,
\* the channels of each group and their order unchanged; without a sort spec
\* the sequence of the groups is unchanged.
C23_SortPlaylist ==
    [][playlist.pc = "sort_playlist" /\ SortPlaylist =>
           SortedGroups(playlist.new_playlist, playlist'.new_playlist,
                        playlist.target.sort)]_vars

\* three groups were put into descending order, which moved them
C23_Witness ==
    /\ playlist.pc = "write"
    /\ playlist.target.sort = Some([order |-> "Desc"])
    /\ Len(playlist.new_playlist) = 3
    /\ playlist.new_playlist # rename_playlist(playlist.playlist, playlist.target)
    /\ playlist.new_playlist[1].title # playlist.new_playlist[3].title
    /\ playlist.new_playlist[1].channels # <<>>


\* no rule's regex matches the replacement of the rule
NonRecursive(rename) ==
    \A i \in 1..Len(rename) : ~is_match(rename[i].re, rename[i].new_name)

\* no rule's regex matches the value the field of the rule has in pli,
\* rules on the url apart
Settled(rename, pli) ==
    \A i \in 1..Len(rename) :
        rename[i].field # "Url" =>
            ~is_match(rename[i].re, get_field_value(pli, rename[i].field))

\* rules on the url change nothing: the url stays, and so does the item
\* when all rules are on the url
UrlRulesChangeNothing(x) ==
    /\ x.first[1].url = x.pli.url
    /\ (\A i \in 1..Len(x.rename) : x.rename[i].field = "Url") =>
           x.first[1] = x.pli

\* C24: for a list of rules none of which has a regex that matches its own
\* replacement, and any item, exec_rename applied to the result of
\* exec_rename gives that result again; rules on the url never change the
\* item.
C24_RenameIdempotent ==
    (playlist.pc = "renamed_twice" /\ NonRecursive(playlist.rename)) =>
        /\ playlist.second = playlist.first
        /\ UrlRulesChangeNothing(playlist)

\* C24, amended: for a list of rules none of which has a regex that matches
\* its own replacement or, for a rule on group, name or title, the value of
\* its field in exec_rename(I, R), exec_rename applied to exec_rename(I, R)
\* gives that result again; rules on the url never change the item.
C24_RenameSettled ==
    playlist.pc = "renamed_twice" =>
        /\ (/\ NonRecursive(playlist.rename)
            /\ Settled(playlist.rename, playlist.first[1]))
               => playlist.second = playlist.first
        /\ UrlRulesChangeNothing(playlist)

\* two rules, one of them on the url, changed the item, and no regex
\* matches in the result
C24_Witness ==
    /\ playlist.pc = "renamed_twice"
    /\ Len(playlist.rename) = 2
    /\ NonRecursive(playlist.rename)
    /\ Settled(playlist.rename, playlist.first[1])
    /\ playlist.first[1] # playlist.pli
    /\ \E i \in 1..2 : playlist.rename[i].field = "Url"
    /\ is_match(<<"a">>, playlist.pli.url)

(***************************************************************************)
(* C27: json_filter_file terminates and returns a vector for every content *)
(* of the file, a well-formed array, an empty file, an array that ends     *)
(* before its closing "]" and an array with a malformed element; every     *)
(* error the iterator reports is followed by the end of the iteration.     *)
(***************************************************************************)
C27_FilterTerminates ==
    /\ <>(json.pc = "done")
    /\ (json.pc = "entry" /\ json.entry.kind = "Err") ~> (json.pc = "done")

====
